---- MODULE Spec2Model ----
(***************************************************************************)
(* Verification model of the shiroclient SDK: the JSON-RPC protocol        *)
(* client (reqres / Call / QueryBlock / doRequest), the functional-options *)
(* configuration model (applyConfigs) and the batch polling driver         *)
(* (Register / Tick / TickAsync / Pause / Resume / Stop).                  *)
(***************************************************************************)
EXTENDS Integers, Sequences, FiniteSets, TLC

VARIABLES
    \* ---- protocol client (internal/rpc/shiroclient.go) ----
    baseConfig,   \* rpcShiroClient.baseConfig: the client-level config list
    configs,      \* the per-call config list handed to the operation
    gateway,      \* what the HTTP exchange yields: transport error or body bytes
    operation,    \* the method of rpcShiroClient that is called
    rpcPc,        \* position of the calling goroutine: "start" | "done"
    ret,          \* what the operation returned: [resp, err, panicked]
    wraps,        \* how many times the caller has wrapped ret.err with %w
    \* ---- configuration model (the three applyConfigs of the repository) ----
    version,      \* which rpcShiroClient.applyConfigs the client was built from
    uuidErr,      \* whether uuid.NewRandom() fails in this call
    applied,      \* what applyConfigs produced: options, error or panic
    cfgPc,        \* position of the call in applyConfigs: "start" | "done"
    \* ---- batch polling driver (batch.Driver / batch.Ticker) ----
    enable,          \* Ticker.enable, guarded by Ticker.rwMutex
    tickerStopped,   \* whether Ticker.ticker (the time.Ticker) has been stopped
    tickerC,         \* number of firings buffered in Ticker.ticker.C (capacity 1)
    loop,            \* the poll goroutine of Register: position and local enable
    overrideSenders, \* goroutines blocked in TickAsync on the unbuffered override
    rounds,          \* every invocation of Ticker.Tick so far, with its tasks
    queue,           \* backend: the pending request envelopes of the batch
    recorded,        \* backend: the responses it has processed, in order
    pollBudget,      \* how many times Tick is invoked in this behaviour at most
    \* ---- doRequest: the caller, its context and the network goroutine ----
    ctxErr,          \* ctx.Err(): NoError until the context is done
    net,             \* the goroutine of doRequest: position, response, error
    resultCh,        \* resultCh, a channel of capacity 1
    caller,          \* doRequest itself: position, and what woke its select
    doneWhileWaiting, \* the context became done while doRequest waited in vain
    \* ---- syncClient: the serializing decorator of NewSync ----
    mutex,           \* syncClient.mutex: whether it is locked
    callers,         \* the goroutines that call the decorated client
    \* ---- mock adapter (mockShiroClient over the substrate plugin) ----
    backend, \* what the backend does with the operation: its outcome
    mockRet, \* what the operation of mockShiroClient returned
    mockPc, \* position of the caller of mockShiroClient: "start" | "done"
    \* ---- concurrent calls on one client ----
    clientKind, \* which client the calls are made on
    spare, \* the slots of baseConfig's array beyond its length
    flattens, \* each call: its configs, position and the options built
    \* ---- HealthCheck ----
    endpointURL, \* opt.Endpoint of the health check
    services, \* the services asked about
    checkURL, \* what gatewayHealthCheckURL returned
    healthBody, \* the body the gateway answers with
    healthRet, \* what unmarshalHealthResponse returned
    healthPc, \* position in HealthCheck
    \* ---- the request a call sends ----
    request, \* the JSON-RPC request handed to reqres
    \* ---- a call through private.WrapCall ----
    wrapIn, \* message, transforms and configs of the call
    clientCalls, \* the calls made on the client, in order
    wrapNew, \* newConfigs of encodeHelper
    wrapResp, \* the response of the wrapped call
    wrapPc, \* position in the function WrapCall returned
    wrapRet, \* what it returned
    \* ---- values held by a caller: Response, Block and Transaction ----
    arrays, \* the backing arrays of the slices, in order of allocation
    fields, \* the array each field of the values points to
    obtained, \* the slices the accessors have returned to the caller
    \* ---- the calls Driver.call makes on its client ----
    registered, \* the client configs given to Register
    driverCalls, \* the calls made on the client: method and configs, in order
    \* ---- QueryBlock on a mock client ----
    mockVersion, \* which mock client: internal/mock or shiroclient
    substrateBlock, \* what the substrate answers to QueryBlock
    mockBlock  \* what QueryBlock has returned

rpcVars == <<baseConfig, configs, gateway, operation, rpcPc, ret, wraps>>
cfgVars == <<version, uuidErr, applied, cfgPc>>
batchVars ==
    <<enable, tickerStopped, tickerC, loop, overrideSenders, rounds, queue, recorded,
      pollBudget>>

reqVars == <<ctxErr, net, resultCh, caller, doneWhileWaiting>>

syncVars == <<mutex, callers>>

mockVars == <<backend, mockRet, mockPc>>

flattenVars == <<clientKind, spare, flattens>>

healthVars == <<endpointURL, services, checkURL, healthBody, healthRet, healthPc>>

requestVars == <<request>>

wrapVars == <<wrapIn, clientCalls, wrapNew, wrapResp, wrapPc, wrapRet>>

accessVars == <<arrays, fields, obtained>>

driverVars == <<registered, driverCalls>>

blockVars == <<mockVersion, substrateBlock, mockBlock>>

vars == <<rpcVars, cfgVars, batchVars, reqVars, syncVars, mockVars, flattenVars, healthVars, requestVars, wrapVars, accessVars, driverVars, blockVars>>

----------------------------------------------------------------------------
(* Bounds of the model.                                                    *)

MaxWrap == 2          \* caller-side fmt.Errorf("%w") wrappings of an error
MaxConfigs == 2       \* length of a base or per-call config list
MaxRounds == 2        \* invocations of Ticker.Tick in one behaviour
MaxAsync == 1         \* goroutines blocked in TickAsync at one time
MaxRequests == 2      \* envelopes pending in the backend
MaxTx == 2            \* members of a parallel array of a QueryBlock response
MaxCallers == 2       \* goroutines that share one client returned by NewSync

----------------------------------------------------------------------------
(* Program constants (x/rpc/rpc.go).                                       *)

ErrorLevelNoError == 0
ErrorLevelShiroClient == 1
ErrorLevelPhylum == 2
ErrorCodeShiroClientNone == 0
ErrorCodeShiroClientTimeout == 1

----------------------------------------------------------------------------
(* JSON.  Bytes on the wire are modelled as syntax trees ("wire" values):  *)
(* number and string literals keep their spelling, objects keep the order  *)
(* and the duplicates of their members.  encoding/json decodes them into   *)
(* Go values (float64, string, []interface{}, map[string]interface{}) and  *)
(* encodes Go values back into canonical wire values.                      *)

WInvalid == [k |-> "invalid"]               \* bytes that are not JSON
WNull == [k |-> "null"]
WBool(b) == [k |-> "bool", v |-> b]
WNum(lit) == [k |-> "num", v |-> lit]       \* lit: the literal as spelled
WStr(lit) == [k |-> "str", v |-> lit]       \* lit: the text between the quotes
WArr(seq) == [k |-> "arr", v |-> seq]
WObj(pairs) == [k |-> "obj", v |-> pairs]   \* pairs: sequence of <<key, wire>>

GNil == [k |-> "nil"]
GBool(b) == [k |-> "bool", v |-> b]
GFloat(t) == [k |-> "float64", v |-> t]     \* t: the value in tenths
GString(s) == [k |-> "string", v |-> s]
GSlice(seq) == [k |-> "slice", v |-> seq]
GMap(f) == [k |-> "map", v |-> f]           \* f: function from keys to Go values

\* strconv.ParseFloat on the literals of the model; values are kept in tenths.
ParseFloat(lit) ==
    CASE lit = "0" -> 0
      [] lit = "1" -> 10
      [] lit = "1.0" -> 10
      [] lit = "1e0" -> 10
      [] lit = "2" -> 20
      [] lit = "2.5" -> 25
      [] lit = "3" -> 30

\* strconv.FormatFloat(f, 'f', -1, 64) as encoding/json uses it.
FormatFloat(t) ==
    CASE t = 0 -> "0"
      [] t = 10 -> "1"
      [] t = 20 -> "2"
      [] t = 25 -> "2.5"
      [] t = 30 -> "3"

\* Go's int(f) conversion of a non-negative float64: truncation.
FloatToInt(t) == t \div 10

\* Decoding of a JSON string literal: escapes are resolved.
Unquote(lit) == IF lit = "\\u003c" THEN "<" ELSE lit

\* Encoding of a Go string: encoding/json escapes <, > and & (HTML-safe).
Quote(s) == IF s = "<" THEN "\\u003c" ELSE s

\* Byte order of the object keys that occur in the model (sort.Strings).
KeyOrder ==
    << "$commit_tx_id", "a", "b", "block_hash", "chaincode_ids", "code", "data",
       "error_level", "jsonrpc", "message", "result", "transaction_events",
       "transaction_ids", "transaction_reasons" >>

SortedKeys(S) == SelectSeq(KeyOrder, LAMBDA key : key \in S)

MaxOf(S) == CHOOSE x \in S : \A y \in S : y <= x

RECURSIVE Unmarshal(_)
\* json.Unmarshal into interface{}: the last duplicate of a member wins.
Unmarshal(w) ==
    CASE w.k = "null" -> GNil
      [] w.k = "bool" -> GBool(w.v)
      [] w.k = "num" -> GFloat(ParseFloat(w.v))
      [] w.k = "str" -> GString(Unquote(w.v))
      [] w.k = "arr" -> GSlice([i \in DOMAIN w.v |-> Unmarshal(w.v[i])])
      [] w.k = "obj" ->
           LET keys == {w.v[i][1] : i \in DOMAIN w.v}
               last(key) == MaxOf({i \in DOMAIN w.v : w.v[i][1] = key})
           IN  GMap([key \in keys |-> Unmarshal(w.v[last(key)][2])])

RECURSIVE Marshal(_)
\* json.Marshal of a decoded value: map keys sorted, numbers and strings
\* re-spelled canonically.
Marshal(g) ==
    CASE g.k = "nil" -> WNull
      [] g.k = "bool" -> WBool(g.v)
      [] g.k = "float64" -> WNum(FormatFloat(g.v))
      [] g.k = "string" -> WStr(Quote(g.v))
      [] g.k = "slice" -> WArr([i \in DOMAIN g.v |-> Marshal(g.v[i])])
      [] g.k = "map" ->
           LET ks == SortedKeys(DOMAIN g.v)
           IN  WObj([i \in DOMAIN ks |-> <<ks[i], Marshal(g.v[ks[i]])>>])

HasKey(g, key) == key \in DOMAIN g.v

----------------------------------------------------------------------------
(* Errors.                                                                 *)

NoError == [kind |-> "nil"]
ErrorsNew(msg) == [kind |-> "errorString", msg |-> msg]
ScError(msg, code) == [kind |-> "scError", msg |-> msg, code |-> code]
\* fmt.Errorf(prefix + ": %w", inner)
Errorf(prefix, inner) == [kind |-> "wrapError", msg |-> prefix, inner |-> inner]

\* errors.As(err, &se) with se *scError: the first *scError on the Unwrap
\* chain; scError.Unwrap returns its err field, which no constructor sets.
RECURSIVE ErrorsAsScError(_)
ErrorsAsScError(err) ==
    CASE err.kind = "scError" -> err
      [] err.kind = "wrapError" -> ErrorsAsScError(err.inner)
      [] OTHER -> NoError

\* Mutant: a type assertion on err itself instead of errors.As, so a wrapped
\* scError is not found.
IsTimeoutErrorNoUnwrap(err) ==
    IF err.kind = "scError" THEN err.code = ErrorCodeShiroClientTimeout ELSE FALSE

IsTimeoutError(err) ==
    LET se == ErrorsAsScError(err)
    IN  IF se.kind = "scError" THEN se.code = ErrorCodeShiroClientTimeout ELSE FALSE

----------------------------------------------------------------------------
(* Responses (successResponse / failureResponse).                          *)

NilBytes == [k |-> "nilbytes"]          \* a nil []byte
NilResponse == [kind |-> "nil"]
NewSuccessResponse(resultJSON, txID) ==
    [kind |-> "success", result |-> resultJSON, txID |-> txID]
NewFailureResponse(code, message, dataJSON) ==
    [kind |-> "failure", code |-> code, message |-> message, data |-> dataJSON]

ResultJSONOfEitherVariant(s) == IF s.kind = "success" THEN s.result ELSE s.data
ResultJSON(s) == IF s.kind = "success" THEN s.result ELSE NilBytes
TransactionID(s) == IF s.kind = "success" THEN s.txID ELSE ""
RespError(s) == IF s.kind = "failure" THEN s ELSE NilResponse
Code(s) == s.code
Message(s) == s.message
DataJSON(s) == s.data

\* UnmarshalTo(dst): a success response decodes its result into dst, which
\* fails when dst does not fit the result; a failure response never decodes.
UnmarshalTo(s, dstFits) ==
    IF s.kind = "failure"
    THEN ErrorsNew("can't unmarshal the result if the RPC call failed")
    ELSE IF dstFits THEN NoError
    ELSE ErrorsNew("json: cannot unmarshal")

----------------------------------------------------------------------------
(* Configuration model.  A Config is a mutator of RequestOptions; it is    *)
(* modelled by the name of its constructor and the arguments it closes     *)
(* over.                                                                   *)

NilConfig == [cfg |-> "nil"]

EmptyMap == [key \in {} |-> ""]
MapSet(m, key, val) ==
    [x \in DOMAIN m \cup {key} |-> IF x = key THEN val ELSE m[x]]

WithEndpoint(endpoint) == [cfg |-> "WithEndpoint", val |-> endpoint]
WithID(id) == [cfg |-> "WithID", val |-> id]
WithAuthToken(token) == [cfg |-> "WithAuthToken", val |-> token]
WithHeader(key, value) == [cfg |-> "WithHeader", key |-> key, val |-> value]
WithParams(params) == [cfg |-> "WithParams", val |-> params]
WithTransientData(key, val) == [cfg |-> "WithTransientData", key |-> key, val |-> val]
WithMinEndorsers(n) == [cfg |-> "WithMinEndorsers", val |-> n]
WithDependentTxID(txID) == [cfg |-> "WithDependentTxID", val |-> txID]
WithDisableWritePolling(b) == [cfg |-> "WithDisableWritePolling", val |-> b]
WithSingleton == [cfg |-> "WithSingleton"]

\* The options a call starts from: fresh request id, empty maps, nil
\* optional fields.
DefaultRequestOptions ==
    [ Endpoint |-> "", ID |-> "uuid", AuthToken |-> "", Headers |-> EmptyMap,
      Params |-> GNil, Transient |-> EmptyMap, MinEndorsers |-> 0,
      DependentTxID |-> "", DisableWritePolling |-> FALSE ]

\* config.Fn(opt): the body of the closure each constructor returns.
ConfigFn(c, r) ==
    CASE c.cfg = "WithEndpoint" -> [r EXCEPT !.Endpoint = c.val]
      [] c.cfg = "WithID" -> [r EXCEPT !.ID = c.val]
      [] c.cfg = "WithAuthToken" -> [r EXCEPT !.AuthToken = c.val]
      [] c.cfg = "WithHeader" -> [r EXCEPT !.Headers = MapSet(@, c.key, c.val)]
      [] c.cfg = "WithParams" -> [r EXCEPT !.Params = c.val]
      [] c.cfg = "WithTransientData" -> [r EXCEPT !.Transient = MapSet(@, c.key, c.val)]
      [] c.cfg = "WithMinEndorsers" -> [r EXCEPT !.MinEndorsers = c.val]
      [] c.cfg = "WithDependentTxID" -> [r EXCEPT !.DependentTxID = c.val]
      [] c.cfg = "WithDisableWritePolling" -> [r EXCEPT !.DisableWritePolling = c.val]
      [] c.cfg = "WithSingleton" -> r

RECURSIVE FoldConfigs(_, _)
\* for _, config := range configs { config(opt) }
FoldConfigs(list, r) ==
    IF list = <<>> THEN r ELSE FoldConfigs(Tail(list), ConfigFn(Head(list), r))

\* types.ApplyConfigs: fresh default options, then every config in list order.
ApplyConfigs(list) == FoldConfigs(list, DefaultRequestOptions)

\* rpcShiroClient.applyConfigs of internal/rpc: base configs first, then the
\* configs of the call.
applyConfigs(base, cfgs) == ApplyConfigs(base \o cfgs)

----------------------------------------------------------------------------
(* Protocol client: reqres, getShiroClientError, Call.                     *)

NilRpcres == [k |-> "nil"]
ReqresOk(res) == [res |-> res, err |-> NoError]
ReqresErr(err) == [res |-> NilRpcres, err |-> err]

\* What doRequest handed back to reqres: an error, or the body bytes.
DoRequestErr(err) == [err |-> err, body |-> WInvalid]
DoRequestOk(body) == [err |-> NoError, body |-> body]

\* v := m[key] on a decoded object: the member, or nil when there is none.
MapIndex(g, key) == IF HasKey(g, key) THEN g.v[key] ELSE GNil

\* The ok of v, ok := resultCurly[key]: the sub-field is in the result object.
SubFieldOptional(resultCurly, key) == TRUE
SubFieldPresent(resultCurly, key) == HasKey(resultCurly, key)

\* reqres: the round trip and the partial decoding into rpcres.
reqres(opt, gw) ==
    IF opt.Endpoint = ""
    THEN ReqresErr(ErrorsNew("ShiroClient.reqres expected an endpoint to be set"))
    ELSE IF gw.err # NoError
    THEN ReqresErr(Errorf("ShiroClient.reqres", gw.err))
    ELSE IF gw.body = WInvalid
    THEN ReqresErr(ErrorsNew("json: invalid character"))
    ELSE
    LET resArb == Unmarshal(gw.body) IN
    IF resArb.k # "map"
    THEN ReqresErr(ErrorsNew("ShiroClient.reqres expected an object"))
    ELSE IF ~HasKey(resArb, "jsonrpc")
    THEN ReqresErr(ErrorsNew("ShiroClient.reqres expected a jsonrpc field"))
    ELSE IF resArb.v["jsonrpc"].k # "string"
    THEN ReqresErr(ErrorsNew("ShiroClient.reqres expected a string jsonrpc field"))
    ELSE IF resArb.v["jsonrpc"].v # "2.0"
    THEN ReqresErr(ErrorsNew("ShiroClient.reqres expected jsonrpc version 2.0"))
    ELSE IF ~HasKey(resArb, "result")
    THEN ReqresErr(ErrorsNew("ShiroClient.reqres expected a result field"))
    ELSE
    LET resultCurly == resArb.v["result"] IN
    IF resultCurly.k # "map"
    THEN ReqresErr(ErrorsNew("ShiroClient.reqres expected an object result field"))
    ELSE IF ~SubFieldPresent(resultCurly, "error_level")
    THEN ReqresErr(ErrorsNew("ShiroClient.reqres expected an error_level field"))
    ELSE IF MapIndex(resultCurly, "error_level").k # "float64"
    THEN ReqresErr(ErrorsNew("ShiroClient.reqres expected a numeric error_level field"))
    ELSE IF ~SubFieldPresent(resultCurly, "result")
    THEN ReqresErr(ErrorsNew("ShiroClient.reqres expected a result field"))
    ELSE IF ~SubFieldPresent(resultCurly, "code")
    THEN ReqresErr(ErrorsNew("ShiroClient.reqres expected a code field"))
    ELSE IF ~SubFieldPresent(resultCurly, "message")
    THEN ReqresErr(ErrorsNew("ShiroClient.reqres expected a message field"))
    ELSE IF ~SubFieldPresent(resultCurly, "data")
    THEN ReqresErr(ErrorsNew("ShiroClient.reqres expected a data field"))
    ELSE
    ReqresOk([ errorLevel |-> FloatToInt(MapIndex(resultCurly, "error_level").v),
               result |-> MapIndex(resultCurly, "result"),
               code |-> MapIndex(resultCurly, "code"),
               message |-> MapIndex(resultCurly, "message"),
               data |-> MapIndex(resultCurly, "data"),
               txID |-> IF HasKey(resArb, "$commit_tx_id")
                           /\ resArb.v["$commit_tx_id"].k = "string"
                        THEN resArb.v["$commit_tx_id"].v
                        ELSE "" ])

\* rpcres.getShiroClientError
getShiroClientError(r) ==
    IF r.message.k # "string"
    THEN ScError("shiroclient error with no message", 0)
    ELSE ScError(r.message.v, IF r.code.k = "float64" THEN FloatToInt(r.code.v) ELSE 0)

Returned(resp, err) == [resp |-> resp, err |-> err]
NotReturned == [resp |-> NilResponse, err |-> NoError]

\* Mutant: the phylum level handled like the client level, so an application
\* failure comes back as an error instead of a Failure Response.
CallClassifyPhylumAsError(res) ==
    CASE res.errorLevel = ErrorLevelNoError ->
           Returned(NewSuccessResponse(Marshal(res.result), res.txID), NoError)
      [] res.errorLevel \in {ErrorLevelShiroClient, ErrorLevelPhylum} ->
           Returned(NilResponse, getShiroClientError(res))
      [] OTHER ->
           Returned(NilResponse, ErrorsNew("ShiroClient.Call unexpected error level"))

\* Mutant: the success branch hands the result value back without
\* re-serialising it and forgets the transaction id.
CallClassifyRawResult(res) ==
    CASE res.errorLevel = ErrorLevelNoError ->
           Returned(NewSuccessResponse(res.result, ""), NoError)
      [] res.errorLevel = ErrorLevelShiroClient ->
           Returned(NilResponse, getShiroClientError(res))
      [] OTHER ->
           Returned(NilResponse, ErrorsNew("ShiroClient.Call unexpected error level"))

\* The switch on res.errorLevel at the end of Call.
CallClassify(res) ==
    CASE res.errorLevel = ErrorLevelNoError ->
           Returned(NewSuccessResponse(Marshal(res.result), res.txID), NoError)
      [] res.errorLevel = ErrorLevelShiroClient ->
           Returned(NilResponse, getShiroClientError(res))
      [] res.errorLevel = ErrorLevelPhylum ->
           IF res.code.k # "float64"
           THEN Returned(NilResponse, ErrorsNew("ShiroClient.Call expected a numeric code field"))
           ELSE IF res.message.k # "string"
           THEN Returned(NilResponse, ErrorsNew("ShiroClient.Call expected a string message field"))
           ELSE Returned(NewFailureResponse(FloatToInt(res.code.v), res.message.v,
                                            Marshal(res.data)), NoError)
      [] OTHER ->
           Returned(NilResponse, ErrorsNew("ShiroClient.Call unexpected error level"))

\* rpcShiroClient.Call: options, round trip, classification.
\* Mutant: a Call that returns nothing at all when reqres fails.
CallReturnNothingOnError(base, cfgs, gw) ==
    LET opt == applyConfigs(base, cfgs)
        rr == reqres(opt, gw)
    IN  IF rr.err # NoError THEN Returned(NilResponse, NoError) ELSE CallClassify(rr.res)

CallReturn(base, cfgs, gw) ==
    LET opt == applyConfigs(base, cfgs)
        rr == reqres(opt, gw)
    IN  IF rr.err # NoError THEN Returned(NilResponse, rr.err) ELSE CallClassify(rr.res)

----------------------------------------------------------------------------
(* The responses the gateway may send to Call.                             *)

Absent == [k |-> "absent"]                  \* a member that is not sent
Members(pairs) == SelectSeq(pairs, LAMBDA p : p[2] # Absent)

ResultObject(level, result, code, message, data) ==
    WObj(Members(<< <<"error_level", level>>, <<"result", result>>, <<"code", code>>,
                    <<"message", message>>, <<"data", data>>>>))
Body(jsonrpc, result, txID) ==
    WObj(Members(<< <<"jsonrpc", jsonrpc>>, <<"result", result>>,
                    <<"$commit_tx_id", txID>>>>))

UnsortedObject == WObj(<< <<"b", WNum("1.0")>>, <<"a", WStr("<")>> >>)
DuplicateObject == WObj(<< <<"a", WNum("1")>>, <<"a", WNum("2")>> >>)

ResultValues ==
    { WNull, WBool(TRUE), WNum("1"), WNum("1.0"), WNum("2.5"), WStr("a"), WStr("<"),
      WArr(<<WNum("1e0"), WNull>>), WObj(<<>>), UnsortedObject, DuplicateObject }
LevelValues == { Absent, WStr("2"), WNum("0"), WNum("1"), WNum("2"), WNum("3") }
CodeValues == { Absent, WNull, WStr("1"), WNum("0"), WNum("1"), WNum("2") }
MessageValues == { Absent, WNull, WStr(""), WStr("timeout") }
DataValues == { Absent, WNull, UnsortedObject }
TxIDValues == { Absent, WStr("tx1"), WNum("1") }

SomeResult == ResultObject(WNum("0"), WNull, WNum("0"), WStr(""), WNull)

MalformedBodies ==
    { WInvalid, WNull, WArr(<<>>),
      Body(Absent, SomeResult, Absent), Body(WNum("2"), SomeResult, Absent),
      Body(WStr("1.0"), SomeResult, Absent), Body(WStr("2.0"), Absent, Absent),
      Body(WStr("2.0"), WStr("a"), Absent) }

CallBodies ==
    MalformedBodies \cup
    { Body(WStr("2.0"), ResultObject(level, result, code, message, data), txID) :
        level \in LevelValues, result \in ResultValues \cup {Absent},
        code \in CodeValues, message \in MessageValues, data \in DataValues,
        txID \in TxIDValues }

CallGateways ==
    { DoRequestErr(ErrorsNew("dial tcp: connection refused")) }
    \cup { DoRequestOk(body) : body \in CallBodies }

Endpoint == "https://localhost"

----------------------------------------------------------------------------
(* Specification of the protocol client's Call.                            *)

CfgIdle ==
    /\ version = "internal/rpc"
    /\ uuidErr = FALSE
    /\ applied = [k |-> "none"]
    /\ cfgPc = "idle"

\* The state of a driver on which nothing has been registered.
BatchIdle ==
    /\ enable = FALSE
    /\ tickerStopped = TRUE
    /\ tickerC = 0
    /\ loop = [pc |-> "none"]
    /\ overrideSenders = 0
    /\ rounds = <<>>
    /\ queue = <<>>
    /\ recorded = <<>>
    /\ pollBudget = 0

\* mock adapter (mockShiroClient over the substrate plugin): nothing has happened.
MockIdle ==
    /\ backend = [kind |-> "none"]
    /\ mockRet = NotReturned
    /\ mockPc = "idle"

\* concurrent calls on one client: nothing has happened.
FlattenIdle ==
    /\ clientKind = "none"
    /\ spare = <<>>
    /\ flattens = <<>>

\* HealthCheck: nothing has happened.
HealthIdle ==
    /\ endpointURL = ""
    /\ services = <<>>
    /\ checkURL = [k |-> "none"]
    /\ healthBody = [k |-> "none"]
    /\ healthRet = [k |-> "none"]
    /\ healthPc = "idle"

\* the request a call sends: nothing has happened.
RequestIdle ==
    /\ request = [k |-> "none"]

\* a call through private.WrapCall: nothing has happened.
WrapIdle ==
    /\ wrapIn = [k |-> "none"]
    /\ clientCalls = <<>>
    /\ wrapNew = <<>>
    /\ wrapResp = [k |-> "none"]
    /\ wrapPc = "idle"
    /\ wrapRet = [k |-> "none"]

\* values held by a caller: Response, Block and Transaction: nothing has happened.
AccessIdle ==
    /\ arrays = <<>>
    /\ fields = [k |-> "none"]
    /\ obtained = <<>>

\* the calls Driver.call makes on its client: nothing has happened.
DriverIdle ==
    /\ registered = <<>>
    /\ driverCalls = <<>>

\* QueryBlock on a mock client: nothing has happened.
BlockIdle ==
    /\ mockVersion = "none"
    /\ substrateBlock = [k |-> "none"]
    /\ mockBlock = [k |-> "none"]

\* Nobody is calling a decorated client.
SyncIdle ==
    /\ mutex = FALSE
    /\ callers = <<>>

\* No request is under way.
ReqIdle ==
    /\ ctxErr = NoError
    /\ net = [pc |-> "none"]
    /\ resultCh = <<>>
    /\ caller = [pc |-> "none"]
    /\ doneWhileWaiting = FALSE

RpcInit ==
    /\ BlockIdle
    /\ DriverIdle
    /\ AccessIdle
    /\ WrapIdle
    /\ RequestIdle
    /\ HealthIdle
    /\ FlattenIdle
    /\ MockIdle
    /\ SyncIdle
    /\ CfgIdle
    /\ BatchIdle
    /\ ReqIdle
    /\ baseConfig = <<WithEndpoint(Endpoint)>>
    /\ configs \in { <<>>, <<WithEndpoint("")>> }
    /\ gateway \in CallGateways
    /\ rpcPc = "start"
    /\ operation = "Call"
    /\ ret = NotReturned
    /\ wraps = 0

\* Call(ctx, method, configs...) runs to its return.
Call ==
    /\ rpcPc = "start"
    /\ ret' = CallReturn(baseConfig, configs, gateway)
    /\ rpcPc' = "done"
    /\ UNCHANGED <<blockVars, driverVars, accessVars, wrapVars, requestVars, healthVars, flattenVars, mockVars, syncVars, operation, baseConfig, configs, gateway, wraps, cfgVars, batchVars, reqVars>>

\* The caller wraps the returned error: fmt.Errorf("wrap call error: %w", err).
WrapError ==
    /\ rpcPc = "done"
    /\ ret.err # NoError
    /\ wraps < MaxWrap
    /\ ret' = [ret EXCEPT !.err = Errorf("wrap call error", @)]
    /\ wraps' = wraps + 1
    /\ UNCHANGED <<blockVars, driverVars, accessVars, wrapVars, requestVars, healthVars, flattenVars, mockVars, syncVars, operation, baseConfig, configs, gateway, rpcPc, cfgVars, batchVars, reqVars>>

Init == RpcInit

Next == Call \/ WrapError

Spec == Init /\ [][Next]_vars

----------------------------------------------------------------------------
(* Reading of a response as it was sent, member by member.                 *)

WField(w, key) ==
    IF w.k = "obj" /\ \E i \in DOMAIN w.v : w.v[i][1] = key
    THEN w.v[MaxOf({i \in DOMAIN w.v : w.v[i][1] = key})][2]
    ELSE Absent

SentResult(gw) == WField(gw.body, "result")
SentMember(gw, key) == WField(SentResult(gw), key)
IsNumber(w, lit) == w.k = "num" /\ ParseFloat(w.v) = ParseFloat(lit)

\* The request went out and a body came back.
Received ==
    /\ applyConfigs(baseConfig, configs).Endpoint # ""
    /\ gateway.err = NoError

\* {"jsonrpc":"2.0","result":{error_level,result,code,message,data}} with the
\* five members present and a numeric error_level.
IsEnvelope(gw) ==
    /\ WField(gw.body, "jsonrpc") = WStr("2.0")
    /\ SentMember(gw, "error_level").k = "num"
    /\ \A key \in {"result", "code", "message", "data"} : SentMember(gw, key) # Absent

\* A response of the wire format: numeric code, string message, and a string
\* $commit_tx_id when there is one.
IsValidResponse(gw) ==
    /\ IsEnvelope(gw)
    /\ SentMember(gw, "code").k = "num"
    /\ SentMember(gw, "message").k = "str"
    /\ WField(gw.body, "$commit_tx_id").k \in {"absent", "str"}

SentLevel(gw, lit) == IsNumber(SentMember(gw, "error_level"), lit)

----------------------------------------------------------------------------
(* Claims about Call and IsTimeoutError.                                   *)

\* C1: for every response of the wire format whose error_level is 2, Call
\* returns a Failure Response and a nil error, and the Response's Code,
\* Message and DataJSON are the response's code, message and (re-serialised)
\* data.
C1_PhylumErrorIsFailureResponse ==
    (rpcPc = "done" /\ Received /\ IsValidResponse(gateway) /\ SentLevel(gateway, "2"))
    => /\ ret.err = NoError
       /\ ret.resp.kind = "failure"
       /\ RespError(ret.resp) # NilResponse
       /\ Code(RespError(ret.resp)) * 10 = ParseFloat(SentMember(gateway, "code").v)
       /\ Message(RespError(ret.resp)) = Unquote(SentMember(gateway, "message").v)
       /\ DataJSON(RespError(ret.resp)) = Marshal(Unmarshal(SentMember(gateway, "data")))
       /\ Unmarshal(DataJSON(RespError(ret.resp))) = Unmarshal(SentMember(gateway, "data"))

C1_Witness ==
    /\ rpcPc = "done" /\ Received /\ IsValidResponse(gateway) /\ SentLevel(gateway, "2")
    /\ SentMember(gateway, "code") = WNum("2")
    /\ SentMember(gateway, "data") = UnsortedObject
    /\ ret.resp.kind = "failure"

C3_SuccessRoundTrip ==
    (rpcPc = "done" /\ Received /\ IsValidResponse(gateway) /\ SentLevel(gateway, "0"))
    => /\ ret.err = NoError
       /\ ret.resp.kind = "success"
       /\ RespError(ret.resp) = NilResponse
       /\ ResultJSON(ret.resp) = Marshal(Unmarshal(SentMember(gateway, "result")))
       /\ Unmarshal(ResultJSON(ret.resp)) = Unmarshal(SentMember(gateway, "result"))
       /\ Marshal(Unmarshal(ResultJSON(ret.resp))) = ResultJSON(ret.resp)
       /\ TransactionID(ret.resp) =
            IF WField(gateway.body, "$commit_tx_id") = Absent
            THEN ""
            ELSE Unquote(WField(gateway.body, "$commit_tx_id").v)

C3_Witness ==
    /\ rpcPc = "done" /\ Received /\ IsValidResponse(gateway) /\ SentLevel(gateway, "0")
    /\ SentMember(gateway, "result") = UnsortedObject
    /\ ResultJSON(ret.resp) # SentMember(gateway, "result")
    /\ TransactionID(ret.resp) = "tx1"

----------------------------------------------------------------------------
(* Specification of the configuration model: the three applyConfigs of     *)
(* the repository, each run on a base list and a per-call list.            *)

RECURSIVE SeqsUpTo(_, _)
SeqsUpTo(S, n) ==
    IF n = 0 THEN {<<>>}
    ELSE SeqsUpTo(S, n - 1) \cup {Append(q, x) : q \in SeqsUpTo(S, n - 1), x \in S}

ConfigValues ==
    { WithEndpoint(Endpoint), WithEndpoint(""), WithHeader("h", "1"),
      WithHeader("h", "2"), WithSingleton }
ConfigLists == SeqsUpTo(ConfigValues, MaxConfigs)

Versions == {"shiroclient", "internal/rpc", "shiroclient/internal/rpc"}

NoneApplied == [k |-> "none"]
Applied(opt) == [k |-> "options", opt |-> opt]
ApplyFailed(err) == [k |-> "error", err |-> err]
Panicked == [k |-> "panic"]

\* make([]Config, n): n nil elements.
MakeConfigs(n) == [i \in 1..n |-> NilConfig]

\* types.ApplyConfigs run on a list that may hold nil entries: every entry of
\* the list is invoked, and invoking a nil Config panics.
ApplyConfigsOutcome(list) ==
    IF \E i \in DOMAIN list : list[i] = NilConfig
    THEN Panicked
    ELSE Applied(ApplyConfigs(list))

CfgInit ==
    /\ BlockIdle
    /\ DriverIdle
    /\ AccessIdle
    /\ WrapIdle
    /\ RequestIdle
    /\ HealthIdle
    /\ FlattenIdle
    /\ MockIdle
    /\ SyncIdle
    /\ BatchIdle
    /\ ReqIdle
    /\ version \in Versions
    /\ uuidErr \in BOOLEAN
    /\ baseConfig \in ConfigLists
    /\ configs \in ConfigLists
    /\ applied = NoneApplied
    /\ cfgPc = "start"
    /\ gateway = DoRequestOk(WNull)
    /\ rpcPc = "idle"
    /\ operation = "none"
    /\ ret = NotReturned
    /\ wraps = 0

\* shiroclient/shiroclient.go: the options are built and both lists are
\* ranged over in place.
ApplyConfigsV1 ==
    /\ cfgPc = "start"
    /\ version = "shiroclient"
    /\ applied' = IF uuidErr
                  THEN ApplyFailed(ErrorsNew("uuid: entropy"))
                  ELSE Applied(FoldConfigs(configs,
                                           FoldConfigs(baseConfig, DefaultRequestOptions)))
    /\ cfgPc' = "done"
    /\ UNCHANGED <<blockVars, driverVars, accessVars, wrapVars, requestVars, healthVars, flattenVars, mockVars, syncVars, rpcVars, version, uuidErr, batchVars, reqVars>>

\* internal/rpc/shiroclient.go: make([]types.Config, 0, n), two appends.
ApplyConfigsV2 ==
    /\ cfgPc = "start"
    /\ version = "internal/rpc"
    /\ LET tConfigs == (MakeConfigs(0) \o baseConfig) \o configs
       IN  applied' = ApplyConfigsOutcome(tConfigs)
    /\ cfgPc' = "done"
    /\ UNCHANGED <<blockVars, driverVars, accessVars, wrapVars, requestVars, healthVars, flattenVars, mockVars, syncVars, rpcVars, version, uuidErr, batchVars, reqVars>>

\* shiroclient/internal/rpc/shiroclient.go: make([]Config, n) and one append
\* of append(c.baseConfig, configs...).
ApplyConfigsV3 ==
    /\ cfgPc = "start"
    /\ version = "shiroclient/internal/rpc"
    /\ LET tConfigs == MakeConfigs(Len(baseConfig) + Len(configs))
                       \o (baseConfig \o configs)
       IN  applied' = ApplyConfigsOutcome(tConfigs)
    /\ cfgPc' = "done"
    /\ UNCHANGED <<blockVars, driverVars, accessVars, wrapVars, requestVars, healthVars, flattenVars, mockVars, syncVars, rpcVars, version, uuidErr, batchVars, reqVars>>

CfgNext == ApplyConfigsV1 \/ ApplyConfigsV2 \/ ApplyConfigsV3

SpecConfigs == CfgInit /\ [][CfgNext]_vars

\* What "last applied mutator wins" gives, read off the two lists field by
\* field without folding.
LastValue(list, cfgName, default) ==
    LET I == {i \in DOMAIN list : list[i].cfg = cfgName}
    IN  IF I = {} THEN default ELSE list[MaxOf(I)].val
LastKeyed(list, cfgName) ==
    LET I == {i \in DOMAIN list : list[i].cfg = cfgName}
        keys == {list[i].key : i \in I}
    IN  [key \in keys |-> list[MaxOf({i \in I : list[i].key = key})].val]
LastWriterWins(list) ==
    [ Endpoint |-> LastValue(list, "WithEndpoint", ""),
      ID |-> LastValue(list, "WithID", "uuid"),
      AuthToken |-> LastValue(list, "WithAuthToken", ""),
      Headers |-> LastKeyed(list, "WithHeader"),
      Params |-> LastValue(list, "WithParams", GNil),
      Transient |-> LastKeyed(list, "WithTransientData"),
      MinEndorsers |-> LastValue(list, "WithMinEndorsers", 0),
      DependentTxID |-> LastValue(list, "WithDependentTxID", ""),
      DisableWritePolling |-> LastValue(list, "WithDisableWritePolling", FALSE) ]

\* C4: for every client and every call, the options used are a fresh default
\* RequestOptions with every base config and then every per-call config
\* applied in list order, and nothing else: the last writer of a field wins
\* and a per-call config overrides a base config.
C4_OptionsAreBaseThenPerCall ==
    (cfgPc = "done" /\ applied.k # "error")
    => applied = Applied(LastWriterWins(baseConfig \o configs))

\* The same statement for the two clients that hand ApplyConfigs exactly the
\* base and per-call configs.
C4_HoldsWithoutNilPadding ==
    (cfgPc = "done" /\ applied.k # "error" /\ version # "shiroclient/internal/rpc")
    => applied = Applied(LastWriterWins(baseConfig \o configs))

C4_PerCallOverridesBase ==
    /\ cfgPc = "done" /\ version = "internal/rpc"
    /\ baseConfig = <<WithEndpoint(Endpoint), WithHeader("h", "1")>>
    /\ configs = <<WithHeader("h", "2"), WithEndpoint("")>>
    /\ applied.k = "options"

----------------------------------------------------------------------------
(* The batch polling driver: Register's poll goroutine, the Ticker's       *)
(* controls, and the rounds of Ticker.Tick with one goroutine per          *)
(* envelope.                                                               *)

RequestEnvelope(b, r, msg) == [BatchID |-> b, RequestID |-> r, Message |-> msg]
ResponseEnvelope(b, r, e, msg) ==
    [BatchID |-> b, RequestID |-> r, IsError |-> e, Message |-> msg]

\* The envelopes the backend may hold, their messages being JSON text; the
\* last has a blank request id.
EnvelopeValues ==
    { RequestEnvelope("b1", "r1", "\"ping1\""),
      RequestEnvelope("b1", "r2", "\"ping2\""),
      RequestEnvelope("b1", "r3", "\"ping0\""),
      RequestEnvelope("b1", "", "\"ping1\"") }

Injective(q) == \A i, j \in DOMAIN q : q[i] = q[j] => i = j
Queues == {q \in SeqsUpTo(EnvelopeValues, MaxRequests) : Injective(q)}

\* What Driver.call can meet: the client's Call fails, the phylum answers
\* with an error, the result is empty, or there is a result.
CallOutcomes == {"ok", "callError", "phylumError", "emptyResult"}

\* Driver.call: nil unless the call produced a non-empty result.
callIgnoresFailure(outcome, res) == [nil |-> FALSE, res |-> res]
call(outcome, res) ==
    IF outcome = "ok" THEN [nil |-> FALSE, res |-> res] ELSE [nil |-> TRUE, res |-> <<>>]

\* The result of batch_get_requests as Tick decodes it: the pending
\* envelopes, or bytes that are not an array of envelopes.
GetOutcomes == CallOutcomes \cup {"notEnvelopes"}

\* The registered callback: a payload for "ping1", an error for "ping2", and
\* for any other message neither a payload nor an error.
callback(msg) ==
    IF msg = "\"ping1\"" THEN [response |-> "\"pong1\"", err |-> NoError]
    ELSE IF msg = "\"ping2\"" THEN [response |-> "", err |-> ErrorsNew("ping2 error")]
    ELSE [response |-> "", err |-> NoError]

\* json.Marshal of a Go string, as text: the escaped string between quotes.
MarshalString(str) == "\"" \o Quote(str) \o "\""

\* The error a goroutine reports: the callback's, or the zero-length error
\* when the callback returned neither an error nor a payload.
AcceptEmptyPayload(cb) == cb.err
CallbackError(cb) ==
    IF cb.err = NoError /\ cb.response = ""
    THEN ErrorsNew("Batch::Tick: zero-length response")
    ELSE cb.err

\* The goroutine of an envelope, from the callback to the response envelope:
\* the payload, or the JSON string of the error's text with is_error set.
TaskResponseRawErrorText(env) ==
    LET cb == callback(env.Message)
        err == CallbackError(cb)
    IN IF err = NoError
       THEN ResponseEnvelope(env.BatchID, env.RequestID, FALSE, cb.response)
       ELSE ResponseEnvelope(env.BatchID, env.RequestID, TRUE, err.msg)
TaskResponse(env) ==
    LET cb == callback(env.Message)
        err == CallbackError(cb)
    IN IF err = NoError
       THEN ResponseEnvelope(env.BatchID, env.RequestID, FALSE, cb.response)
       ELSE ResponseEnvelope(env.BatchID, env.RequestID, TRUE, MarshalString(err.msg))

BlankFields(env) == env.BatchID = "" \/ env.RequestID = "" \/ env.Message = ""

\* A loop that starts a goroutine for every envelope.
DispatchedAll(envs) == envs

\* A loop that skips a blank envelope and goes on with the ones after it.
RECURSIVE DispatchedPastBlank(_)
DispatchedPastBlank(envs) ==
    IF envs = <<>> THEN <<>>
    ELSE IF BlankFields(Head(envs)) THEN DispatchedPastBlank(Tail(envs))
    ELSE <<Head(envs)>> \o DispatchedPastBlank(Tail(envs))

\* Tick's loop over envs: the envelopes that get a goroutine are those before
\* the first one with a blank field.
RECURSIVE Dispatched(_)
Dispatched(envs) ==
    IF envs = <<>> \/ BlankFields(Head(envs)) THEN <<>>
    ELSE <<Head(envs)>> \o Dispatched(Tail(envs))

NoResponse == ResponseEnvelope("", "", FALSE, "")
NewTask(env) == [env |-> env, state |-> "callback", resp |-> NoResponse]

\* One invocation of Ticker.Tick.  origin says who invoked it: the poll loop
\* for a timer firing, the poll loop for an override, or a caller of Tick.
NewRound(origin) == [origin |-> origin, pc |-> "get", envs |-> <<>>, tasks |-> <<>>]

\* Everything that will still invoke Tick, and every invocation so far.
Triggers ==
    Len(rounds) + tickerC + overrideSenders + (IF loop.pc = "decide" THEN 1 ELSE 0)

\* A backend that keeps a request pending after its response was processed.
RemoveNothing(q, id) == q

RECURSIVE RemoveRequest(_, _)
RemoveRequest(q, id) ==
    IF q = <<>> THEN <<>>
    ELSE IF Head(q).RequestID = id THEN RemoveRequest(Tail(q), id)
    ELSE <<Head(q)>> \o RemoveRequest(Tail(q), id)

RpcIdle ==
    /\ baseConfig = <<>>
    /\ configs = <<>>
    /\ gateway = DoRequestOk(WNull)
    /\ rpcPc = "idle"
    /\ operation = "none"
    /\ ret = NotReturned
    /\ wraps = 0

LoopAtSelect == [pc |-> "select", origin |-> "none", enable |-> FALSE]

\* The state when Register returns: the ticker runs, polling is enabled, the
\* poll goroutine is at its select.  Several invocations of Tick are followed
\* when the backend holds at most one request, one invocation otherwise.
BatchInit ==
    /\ BlockIdle
    /\ DriverIdle
    /\ AccessIdle
    /\ WrapIdle
    /\ RequestIdle
    /\ HealthIdle
    /\ FlattenIdle
    /\ MockIdle
    /\ SyncIdle
    /\ RpcIdle
    /\ CfgIdle
    /\ ReqIdle
    /\ enable = TRUE
    /\ tickerStopped = FALSE
    /\ tickerC = 0
    /\ loop = LoopAtSelect
    /\ overrideSenders = 0
    /\ rounds = <<>>
    /\ queue \in Queues
    /\ recorded = <<>>
    /\ pollBudget = IF Len(queue) <= 1 THEN MaxRounds ELSE 1

\* The interval elapses: the runtime puts a firing in ticker.C, which holds
\* one; a firing that finds it full is dropped.
TimerFire ==
    /\ loop.pc # "none"
    /\ ~tickerStopped
    /\ tickerC = 0
    /\ Triggers < pollBudget
    /\ tickerC' = 1
    /\ UNCHANGED <<blockVars, driverVars, accessVars, wrapVars, requestVars, healthVars, flattenVars, mockVars, syncVars, rpcVars, cfgVars, reqVars, enable, tickerStopped, loop, overrideSenders,
                   rounds, queue, recorded, pollBudget>>

\* poll: case <-ticker.ticker.C, then enable = ticker.enable under the read
\* lock.
LoopRecvTimer ==
    /\ loop.pc = "select"
    /\ tickerC = 1
    /\ tickerC' = 0
    /\ loop' = [pc |-> "decide", origin |-> "timer", enable |-> enable]
    /\ UNCHANGED <<blockVars, driverVars, accessVars, wrapVars, requestVars, healthVars, flattenVars, mockVars, syncVars, rpcVars, cfgVars, reqVars, enable, tickerStopped, overrideSenders,
                   rounds, queue, recorded, pollBudget>>

\* A poll that ignores the override and consults the enabled flag.
OverrideEnableFromFlag == enable

\* poll: the value of enable in the override case.
OverrideEnable == TRUE

\* A poll goroutine that runs Tick itself and so takes no override while a
\* round is in progress.
LoopRecvOverrideWhenNoRoundRuns ==
    /\ loop.pc = "select"
    /\ overrideSenders > 0
    /\ \A r \in DOMAIN rounds : rounds[r].pc = "returned"
    /\ overrideSenders' = overrideSenders - 1
    /\ loop' = [pc |-> "decide", origin |-> "override", enable |-> OverrideEnable]
    /\ UNCHANGED <<blockVars, driverVars, accessVars, wrapVars, requestVars, healthVars, flattenVars, mockVars, syncVars, rpcVars, cfgVars, reqVars, enable, tickerStopped, tickerC,
                   rounds, queue, recorded, pollBudget>>

\* poll: case <-ticker.override.  The receive releases one sender, whose
\* TickAsync returns.
LoopRecvOverride ==
    /\ loop.pc = "select"
    /\ overrideSenders > 0
    /\ overrideSenders' = overrideSenders - 1
    /\ loop' = [pc |-> "decide", origin |-> "override", enable |-> OverrideEnable]
    /\ UNCHANGED <<blockVars, driverVars, accessVars, wrapVars, requestVars, healthVars, flattenVars, mockVars, syncVars, rpcVars, cfgVars, reqVars, enable, tickerStopped, tickerC,
                   rounds, queue, recorded, pollBudget>>

\* poll: if !enable { continue }
LoopSkip ==
    /\ loop.pc = "decide"
    /\ ~loop.enable
    /\ loop' = LoopAtSelect
    /\ UNCHANGED <<blockVars, driverVars, accessVars, wrapVars, requestVars, healthVars, flattenVars, mockVars, syncVars, rpcVars, cfgVars, reqVars, enable, tickerStopped, tickerC, overrideSenders,
                   rounds, queue, recorded, pollBudget>>

\* A poll goroutine that starts the round and does not go on to its select.
LoopSpawnAndStay ==
    /\ loop.pc = "decide"
    /\ loop.enable
    /\ Len(rounds) < pollBudget
    /\ rounds' = Append(rounds, NewRound(loop.origin))
    /\ loop' = loop
    /\ UNCHANGED <<blockVars, driverVars, accessVars, wrapVars, requestVars, healthVars, flattenVars, mockVars, syncVars, rpcVars, cfgVars, reqVars, enable, tickerStopped, tickerC, overrideSenders,
                   queue, recorded, pollBudget>>

\* poll: go ticker.Tick(ctx)
LoopSpawn ==
    /\ loop.pc = "decide"
    /\ loop.enable
    /\ rounds' = Append(rounds, NewRound(loop.origin))
    /\ loop' = LoopAtSelect
    /\ UNCHANGED <<blockVars, driverVars, accessVars, wrapVars, requestVars, healthVars, flattenVars, mockVars, syncVars, rpcVars, cfgVars, reqVars, enable, tickerStopped, tickerC, overrideSenders,
                   queue, recorded, pollBudget>>

\* TickAsync: t.override <- true.  The channel is unbuffered: the caller
\* blocks in the send until the poll goroutine receives.
TickAsync ==
    /\ loop.pc # "none"
    /\ overrideSenders < MaxAsync
    /\ Triggers < pollBudget
    /\ overrideSenders' = overrideSenders + 1
    /\ UNCHANGED <<blockVars, driverVars, accessVars, wrapVars, requestVars, healthVars, flattenVars, mockVars, syncVars, rpcVars, cfgVars, reqVars, enable, tickerStopped, tickerC, loop,
                   rounds, queue, recorded, pollBudget>>

\* A caller invokes Tick on its own goroutine.
Tick ==
    /\ loop.pc # "none"
    /\ Triggers < pollBudget
    /\ rounds' = Append(rounds, NewRound("sync"))
    /\ UNCHANGED <<blockVars, driverVars, accessVars, wrapVars, requestVars, healthVars, flattenVars, mockVars, syncVars, rpcVars, cfgVars, reqVars, enable, tickerStopped, tickerC, loop,
                   overrideSenders, queue, recorded, pollBudget>>

Pause ==
    /\ loop.pc # "none"
    /\ enable
    /\ enable' = FALSE
    /\ UNCHANGED <<blockVars, driverVars, accessVars, wrapVars, requestVars, healthVars, flattenVars, mockVars, syncVars, rpcVars, cfgVars, reqVars, tickerStopped, tickerC, loop, overrideSenders,
                   rounds, queue, recorded, pollBudget>>

Resume ==
    /\ loop.pc # "none"
    /\ ~enable
    /\ enable' = TRUE
    /\ UNCHANGED <<blockVars, driverVars, accessVars, wrapVars, requestVars, healthVars, flattenVars, mockVars, syncVars, rpcVars, cfgVars, reqVars, tickerStopped, tickerC, loop, overrideSenders,
                   rounds, queue, recorded, pollBudget>>

\* Stop: t.ticker.Stop().  No firing is sent after it.  A firing already in
\* ticker.C stays there when the build uses the channel timers of Go before
\* 1.23 (src/go.mod: go 1.16) and is dropped under the timers of Go 1.23.
Stop ==
    /\ loop.pc # "none"
    /\ ~tickerStopped
    /\ tickerStopped' = TRUE
    /\ tickerC' \in {tickerC, 0}
    /\ UNCHANGED <<blockVars, driverVars, accessVars, wrapVars, requestVars, healthVars, flattenVars, mockVars, syncVars, rpcVars, cfgVars, reqVars, enable, loop, overrideSenders,
                   rounds, queue, recorded, pollBudget>>

\* Tick up to its deferred wg.Wait(): res := d.call(batch_get_requests),
\* json.Unmarshal(res, &envs), and the loop over envs that starts one
\* goroutine per envelope until an envelope has a blank field.  Without a
\* result, or with one that is no array of envelopes, Tick returns at once.
RoundGetWith(r, o) ==
    /\ rounds[r].pc = "get"
    /\ LET res == call(IF o = "notEnvelopes" THEN "ok" ELSE o, queue)
           envs == Dispatched(res.res) IN
       rounds' = [rounds EXCEPT ![r] =
                    IF res.nil \/ o = "notEnvelopes"
                    THEN [@ EXCEPT !.pc = "returned"]
                    ELSE [@ EXCEPT !.pc = "wait", !.envs = res.res,
                                   !.tasks = [i \in DOMAIN envs |-> NewTask(envs[i])]]]
    /\ UNCHANGED <<blockVars, driverVars, accessVars, wrapVars, requestVars, healthVars, flattenVars, mockVars, syncVars, rpcVars, cfgVars, reqVars, enable, tickerStopped, tickerC, loop,
                   overrideSenders, queue, recorded, pollBudget>>

RoundGet(r) == \E o \in GetOutcomes : RoundGetWith(r, o)

\* A round that returns without waiting for its goroutines.
WaitGroupIgnored(tasks) == TRUE

\* wg.Wait() returns when every goroutine of the round has called wg.Done().
WaitGroupZero(tasks) == \A t \in DOMAIN tasks : tasks[t].state = "done"

\* Tick: the deferred wg.Wait() returns and Tick returns.
RoundReturn(r) ==
    /\ rounds[r].pc = "wait"
    /\ WaitGroupZero(rounds[r].tasks)
    /\ rounds' = [rounds EXCEPT ![r].pc = "returned"]
    /\ UNCHANGED <<blockVars, driverVars, accessVars, wrapVars, requestVars, healthVars, flattenVars, mockVars, syncVars, rpcVars, cfgVars, reqVars, enable, tickerStopped, tickerC, loop,
                   overrideSenders, queue, recorded, pollBudget>>

\* The goroutine of an envelope: the callback runs and the response envelope
\* is built from what it returns.
TaskCallback(r, t) ==
    /\ rounds[r].tasks[t].state = "callback"
    /\ rounds' = [rounds EXCEPT ![r].tasks[t] =
                    [@ EXCEPT !.state = "report",
                              !.resp = TaskResponse(rounds[r].tasks[t].env)]]
    /\ UNCHANGED <<blockVars, driverVars, accessVars, wrapVars, requestVars, healthVars, flattenVars, mockVars, syncVars, rpcVars, cfgVars, reqVars, enable, tickerStopped, tickerC, loop,
                   overrideSenders, queue, recorded, pollBudget>>

\* The goroutine of an envelope: d.call(batch_process_response) with the
\* response, then wg.Done().  When the call succeeds the backend records the
\* response and the request is no longer pending.
TaskReportWith(r, t, o) ==
    /\ rounds[r].tasks[t].state = "report"
    /\ LET resp == rounds[r].tasks[t].resp
           res == call(o, resp) IN
       /\ recorded' = IF res.nil THEN recorded ELSE Append(recorded, resp)
       /\ queue' = IF res.nil THEN queue ELSE RemoveRequest(queue, resp.RequestID)
    /\ rounds' = [rounds EXCEPT ![r].tasks[t].state = "done"]
    /\ UNCHANGED <<blockVars, driverVars, accessVars, wrapVars, requestVars, healthVars, flattenVars, mockVars, syncVars, rpcVars, cfgVars, reqVars, enable, tickerStopped, tickerC, loop,
                   overrideSenders, pollBudget>>

TaskReport(r, t) == \E o \in CallOutcomes : TaskReportWith(r, t, o)

BatchNext ==
    \/ TimerFire \/ LoopRecvTimer \/ LoopRecvOverride
    \/ LoopSkip \/ LoopSpawn
    \/ TickAsync \/ Tick \/ Pause \/ Resume \/ Stop
    \/ \E r \in DOMAIN rounds :
         \/ RoundGet(r) \/ RoundReturn(r)
         \/ \E t \in DOMAIN rounds[r].tasks : TaskCallback(r, t) \/ TaskReport(r, t)

SpecBatch == BatchInit /\ [][BatchNext]_vars

RoundsOf(origins) == {r \in DOMAIN rounds : rounds[r].origin \in origins}

\* C5: when Ticker.Tick has returned, every goroutine the round started has
\* finished: its callback has run and its batch_process_response call has
\* completed, whether it succeeded or failed.
C5_TickReturnsAfterAllReports ==
    \A r \in DOMAIN rounds :
        rounds[r].pc = "returned" =>
            \A t \in DOMAIN rounds[r].tasks : rounds[r].tasks[t].state = "done"

\* A Tick called by the user has returned after dispatching two envelopes,
\* and the backend has recorded a response of that round.
C5_Witness ==
    \E r \in RoundsOf({"sync"}) :
        /\ rounds[r].pc = "returned"
        /\ Len(rounds[r].tasks) = 2
        /\ Len(recorded) > 0

\* A step of some round of Tick or of one of its goroutines.
RoundStep ==
    \E r \in DOMAIN rounds :
        \/ RoundGet(r) \/ RoundReturn(r)
        \/ \E t \in DOMAIN rounds[r].tasks : TaskCallback(r, t) \/ TaskReport(r, t)

\* The scheduling the runtime provides: a runnable goroutine runs, a select
\* with several ready cases takes each of them with equal chance, and the
\* calls to the backend and the callback return.  The steps of rounds never
\* disable one another and are finitely many, so weak fairness of their
\* disjunction runs each of them.
BatchFairness ==
    /\ SF_vars(LoopRecvOverride)
    /\ WF_vars(LoopSkip \/ LoopSpawn)
    /\ WF_vars(RoundStep)

SpecBatchFair == SpecBatch /\ BatchFairness

\* The forced ticks so far: the calls of TickAsync blocked in the send, the
\* one the poll goroutine has received and not yet acted on, and the rounds
\* of TickAsync and of Tick.
ForcedTicks ==
    overrideSenders
    + (IF loop.pc = "decide" /\ loop.origin = "override" THEN 1 ELSE 0)
    + Cardinality(RoundsOf({"override", "sync"}))

ForcedRoundsReturned ==
    Cardinality({r \in RoundsOf({"override", "sync"}) : rounds[r].pc = "returned"})

\* C6: forced ticks are independent of Pause and Resume.  The poll goroutine
\* that has received an override invokes Tick whatever the enabled flag is;
\* every call of TickAsync and every call of Tick becomes a round that runs
\* to its return, also while polling is paused; and no step of a forced tick
\* changes the enabled flag.
C6_ForcedTicksIgnorePause ==
    /\ [](loop.pc = "decide" /\ loop.origin = "override" => loop.enable)
    /\ (ForcedTicks > ForcedRoundsReturned) ~> (ForcedTicks = ForcedRoundsReturned)
    /\ [][(rounds' # rounds \/ overrideSenders' # overrideSenders) => enable' = enable]_vars

\* A round forced by TickAsync and a round of a Tick call are both running
\* while polling is paused.
C6_Witness ==
    /\ ~enable
    /\ \E r \in RoundsOf({"override"}) : rounds[r].pc = "wait"
    /\ \E r \in RoundsOf({"sync"}) : rounds[r].pc = "wait"
    /\ \A r \in DOMAIN rounds : rounds[r].origin # "timer"

\* The step is the poll goroutine's go ticker.Tick(ctx) for a timer firing.
TimerRoundStarts ==
    /\ Len(rounds') = Len(rounds) + 1
    /\ rounds'[Len(rounds')].origin = "timer"

\* The started rounds are the same and none of them has lost a task or
\* moved backwards.
RoundsUntouched == rounds' = rounds

\* C7: between the return of Pause and the call of Resume no timer firing
\* starts a round, and Pause leaves the rounds in progress as they are.
C7_NoTimerRoundWhilePaused ==
    /\ [][TimerRoundStarts => enable]_vars
    /\ [][enable' # enable => RoundsUntouched]_vars

\* The part of C7 that the poll goroutine does provide: a firing whose read
\* of the enabled flag finds polling paused starts no round.
C7_FiringReadWhilePausedIsSkipped ==
    [][TimerRoundStarts => loop.enable]_vars

\* C8: once Stop has returned no round is started for the timer any more,
\* whatever Resume does later, and Stop leaves the rounds in progress as they
\* are.
C8_NoTimerRoundAfterStop ==
    /\ [][TimerRoundStarts => ~tickerStopped]_vars
    /\ [][tickerStopped' # tickerStopped => RoundsUntouched]_vars

\* The part of C8 that the ticker does provide: after Stop no firing is put
\* in ticker.C, so at most the one firing delivered before Stop is pending.
C8_NoFiringAfterStop ==
    [][tickerStopped => tickerC' <= tickerC]_vars

----------------------------------------------------------------------------
(* doRequest: one network round trip on a goroutine of its own, raced      *)
(* against the context of the call.                                        *)

ContextCanceled == ErrorsNew("context canceled")
DeadlineExceeded == ErrorsNew("context deadline exceeded")
ContextErrors == {ContextCanceled, DeadlineExceeded}

\* errors.Is(err, target): target is on the Unwrap chain of err.
RECURSIVE ErrorsIs(_, _)
ErrorsIs(err, target) ==
    IF err = target THEN TRUE
    ELSE IF err.kind = "wrapError" THEN ErrorsIs(err.inner, target)
    ELSE FALSE

\* fmt.Errorf("%w: %s", context.Canceled, err): wraps Canceled, with the
\* text of err in the message.
CanceledWrap(err) == [kind |-> "wrapError", msg |-> <<err>>, inner |-> ContextCanceled]

\* The zero result: nil bytes and a nil error.
NoResult == [err |-> NoError, body |-> NilBytes]

\* The bodies a gateway answers with.
ResponseBodies == {Body(WStr("2.0"), SomeResult, Absent), WInvalid}

\* The errors of the transport, of reading the body and of closing it.
TransportErrors == {ErrorsNew("dial tcp: connection refused")}
ReadErrors == {ErrorsNew("unexpected EOF")}
CloseErrors == {ErrorsNew("close of closed body")}

\* The cases of doRequest's select.
SelectCases == {"done", "result"}

\* What doRequest returns once its select has taken a case.
DoRequestReturn(woke, res, cerr) ==
    IF woke = "done" THEN DoRequestErr(cerr)
    ELSE IF res.err # NoError
    THEN IF ErrorsIs(res.err, ContextCanceled) THEN DoRequestErr(res.err)
         ELSE IF ErrorsIs(cerr, ContextCanceled) THEN DoRequestErr(CanceledWrap(res.err))
         ELSE DoRequestErr(res.err)
    ELSE DoRequestOk(res.body)

\* The state when doRequest has made resultCh and started its goroutine.  The
\* context may be done already.
ReqInit ==
    /\ BlockIdle
    /\ DriverIdle
    /\ AccessIdle
    /\ WrapIdle
    /\ RequestIdle
    /\ HealthIdle
    /\ FlattenIdle
    /\ MockIdle
    /\ SyncIdle
    /\ CfgIdle
    /\ BatchIdle
    /\ baseConfig = <<>>
    /\ configs = <<>>
    /\ gateway = NoResult
    /\ rpcPc = "doRequest"
    /\ operation = "none"
    /\ ret = NotReturned
    /\ wraps = 0
    /\ ctxErr \in {NoError} \cup ContextErrors
    /\ net = [pc |-> "do", msg |-> NilBytes, err |-> NoError, afterDone |-> FALSE,
              body |-> "none"]
    /\ resultCh = <<>>
    /\ caller = [pc |-> "select", woke |-> "none", res |-> NoResult]
    /\ doneWhileWaiting = FALSE

\* The context is cancelled or its deadline passes: Done() is closed.  A
\* doRequest blocked in its select is woken for that case.
ContextDone ==
    /\ ctxErr = NoError
    /\ caller.pc \in {"select", "blocked", "woken"}
    /\ ctxErr' \in ContextErrors
    /\ caller' = IF caller.pc = "blocked" /\ "done" \in SelectCases
                 THEN [caller EXCEPT !.pc = "woken", !.woke = "done"]
                 ELSE caller
    /\ doneWhileWaiting' = (doneWhileWaiting \/ caller.pc = "blocked")
    /\ UNCHANGED <<blockVars, driverVars, accessVars, wrapVars, requestVars, healthVars, flattenVars, mockVars, syncVars, rpcVars, cfgVars, batchVars, net, resultCh>>

\* A send on a channel made without a buffer: it proceeds only when the
\* receiver waits in its select.
SendProceedsUnbuffered == caller.pc = "blocked" /\ "result" \in SelectCases

\* resultCh := make(chan result, 1): a send proceeds when the buffer has room
\* or the receiver waits in its select.
SendProceeds ==
    \/ Len(resultCh) < 1
    \/ caller.pc = "blocked" /\ "result" \in SelectCases

\* resultCh <- res.  A doRequest blocked in its select takes the result
\* directly; otherwise the result goes into the buffer.
Deliver(res) ==
    /\ SendProceeds
    /\ IF caller.pc = "blocked" /\ "result" \in SelectCases
       THEN /\ caller' = [caller EXCEPT !.pc = "woken", !.woke = "result", !.res = res]
            /\ resultCh' = resultCh
       ELSE /\ resultCh' = Append(resultCh, res)
            /\ caller' = caller

\* The goroutine: httpClient.Do(httpReq.WithContext(ctx)).  With the context
\* done the transport gives the context's error; an error is sent at once.
NetDo ==
    /\ net.pc = "do"
    /\ \E err \in IF ctxErr # NoError THEN {Errorf("Post", ctxErr)}
                  ELSE TransportErrors \cup {NoError} :
         IF err = NoError
         THEN /\ net' = [net EXCEPT !.pc = "read", !.body = "open"]
              /\ UNCHANGED <<resultCh, caller>>
         ELSE /\ net' = [net EXCEPT !.pc = "exited", !.err = err]
              /\ Deliver(DoRequestErr(err))
    /\ UNCHANGED <<blockVars, driverVars, accessVars, wrapVars, requestVars, healthVars, flattenVars, mockVars, syncVars, rpcVars, cfgVars, batchVars, ctxErr, doneWhileWaiting>>

\* The goroutine: io.ReadAll(httpRes.Body).  With the context done the read
\* may still give the whole body or fail with the context's error.
NetRead ==
    /\ net.pc = "read"
    /\ \/ \E msg \in ResponseBodies :
            net' = [net EXCEPT !.pc = "close", !.msg = msg, !.afterDone = (ctxErr # NoError)]
       \/ \E err \in ReadErrors \cup (IF ctxErr # NoError THEN {ctxErr} ELSE {}) :
            net' = [net EXCEPT !.pc = "close", !.err = err]
    /\ UNCHANGED <<blockVars, driverVars, accessVars, wrapVars, requestVars, healthVars, flattenVars, mockVars, syncVars, rpcVars, cfgVars, batchVars, ctxErr, resultCh, caller, doneWhileWaiting>>

\* The goroutine: httpRes.Body.Close(), then the one send on resultCh.
NetCloseSend ==
    /\ net.pc = "close"
    /\ \E closeErr \in CloseErrors \cup {NoError} :
         LET err == IF net.err = NoError THEN closeErr ELSE net.err IN
         /\ net' = [net EXCEPT !.pc = "exited", !.err = err, !.body = "closed"]
         /\ Deliver(IF err # NoError THEN DoRequestErr(err) ELSE DoRequestOk(net.msg))
    /\ UNCHANGED <<blockVars, driverVars, accessVars, wrapVars, requestVars, healthVars, flattenVars, mockVars, syncVars, rpcVars, cfgVars, batchVars, ctxErr, doneWhileWaiting>>

\* doRequest reaches its select.  With no case ready it blocks; with one it
\* takes it; with both the runtime picks either.
CallerSelect ==
    /\ caller.pc = "select"
    /\ LET ready == {c \in SelectCases : \/ c = "done" /\ ctxErr # NoError
                                         \/ c = "result" /\ resultCh # <<>>} IN
       IF ready = {}
       THEN /\ caller' = [caller EXCEPT !.pc = "blocked"]
            /\ resultCh' = resultCh
       ELSE \E c \in ready :
              /\ caller' = [pc |-> "woken", woke |-> c,
                            res |-> IF c = "result" THEN Head(resultCh) ELSE NoResult]
              /\ resultCh' = IF c = "result" THEN Tail(resultCh) ELSE resultCh
    /\ doneWhileWaiting' = (ctxErr # NoError /\ resultCh = <<>>)
    /\ UNCHANGED <<blockVars, driverVars, accessVars, wrapVars, requestVars, healthVars, flattenVars, mockVars, syncVars, rpcVars, cfgVars, batchVars, ctxErr, net>>

\* doRequest returns from the case its select took.
CallerReturn ==
    /\ caller.pc = "woken"
    /\ gateway' = DoRequestReturn(caller.woke, caller.res, ctxErr)
    /\ caller' = [caller EXCEPT !.pc = "returned"]
    /\ UNCHANGED <<blockVars, driverVars, accessVars, wrapVars, requestVars, healthVars, flattenVars, mockVars, syncVars, operation, baseConfig, configs, rpcPc, ret, wraps, cfgVars, batchVars,
                   ctxErr, net, resultCh, doneWhileWaiting>>

ReqNext == ContextDone \/ NetDo \/ NetRead \/ NetCloseSend \/ CallerSelect \/ CallerReturn

SpecRequest == ReqInit /\ [][ReqNext]_vars

\* C9 as stated: when the context is done before doRequest returns,
\* doRequest returns the context's error and no bytes, and bytes the
\* goroutine read after the context was done are never returned.
C9_DoneContextAlwaysWins ==
    caller.pc = "returned" /\ ctxErr # NoError =>
        /\ gateway.err # NoError
        /\ ErrorsIs(gateway.err, ctxErr)
        /\ gateway.body = WInvalid

\* The part of C9 that doRequest does provide: when the context becomes done
\* while doRequest waits and no result has been delivered, doRequest returns
\* the context's error, whether or not the goroutine has finished; and what
\* doRequest has returned is not changed by anything the goroutine delivers
\* later.
C9_DoneWhileWaitingReturnsContextError ==
    /\ [](caller.pc = "returned" /\ doneWhileWaiting => gateway = DoRequestErr(ctxErr))
    /\ [][caller.pc = "returned" => gateway' = gateway]_vars

\* doRequest has returned the context's error, and afterwards the goroutine
\* has read a whole body and left it in resultCh, where nobody receives it.
C9_DiscardedAfterReturn ==
    /\ caller.pc = "returned" /\ doneWhileWaiting
    /\ gateway = DoRequestErr(ctxErr)
    /\ net.pc = "exited" /\ net.afterDone
    /\ resultCh = <<DoRequestOk(net.msg)>>

----------------------------------------------------------------------------
(* QueryBlock: the decoding of a block from the four parallel arrays.      *)

NewTransaction(id, reason, event, ccid) ==
    [ID |-> id, Reason |-> reason, Event |-> event, ChaincodeID |-> ccid]
NewBlock(hash, transactions) ==
    [kind |-> "block", hash |-> hash, transactions |-> transactions]

\* The goroutine panics: runtime error, index out of range.
IndexOutOfRange == [kind |-> "panic"]

\* base64.StdEncoding.DecodeString on the literals of the model.
Base64Decode(lit) ==
    CASE lit = "" -> [ok |-> TRUE, bytes |-> ""]
      [] lit = "ZXYx" -> [ok |-> TRUE, bytes |-> "ev1"]
      [] lit = "ZXYy" -> [ok |-> TRUE, bytes |-> "ev2"]
      [] OTHER -> [ok |-> FALSE, bytes |-> ""]

\* The loops that turn a []interface{} into a []string.
AllStrings(g) == \A i \in DOMAIN g.v : g.v[i].k = "string"
StringsOf(g) == [i \in DOMAIN g.v |-> g.v[i].v]

QueryBlockErr(msg) == Returned(NilResponse, ErrorsNew(msg))

\* The test on the lengths of the identifiers and of the reasons.
MismatchedOnlyWhenLonger(txidsOut, reasonsOut) == Len(txidsOut) > Len(reasonsOut)
MismatchedParallelArrays(txidsOut, reasonsOut) == Len(txidsOut) # Len(reasonsOut)

\* QueryBlock, the case of error level 0: the members of the result are
\* checked one after the other, then the transactions are built.
QueryBlockDecode(result) ==
    IF result.k # "map"
    THEN QueryBlockErr("ShiroClient.QueryBlock expected an object result field")
    ELSE IF ~HasKey(result, "block_hash")
    THEN QueryBlockErr("ShiroClient.QueryBlock expected a block_hash field")
    ELSE IF result.v["block_hash"].k # "string"
    THEN QueryBlockErr("ShiroClient.QueryBlock expected a string block_hash field")
    ELSE IF ~HasKey(result, "transaction_ids")
    THEN QueryBlockErr("ShiroClient.QueryBlock expected a transaction_ids field")
    ELSE IF result.v["transaction_ids"].k # "slice"
    THEN QueryBlockErr("ShiroClient.QueryBlock expected an array transaction_ids field")
    ELSE IF ~AllStrings(result.v["transaction_ids"])
    THEN QueryBlockErr("ShiroClient.QueryBlock expected a string transaction_id member")
    ELSE IF ~HasKey(result, "transaction_reasons")
    THEN QueryBlockErr("ShiroClient.QueryBlock expected a transaction_reasons field")
    ELSE IF result.v["transaction_reasons"].k # "slice"
    THEN QueryBlockErr("ShiroClient.QueryBlock expected an array transaction_reasons field")
    ELSE IF ~AllStrings(result.v["transaction_reasons"])
    THEN QueryBlockErr("ShiroClient.QueryBlock expected a string transaction_reason member")
    ELSE IF ~HasKey(result, "transaction_events")
    THEN QueryBlockErr("ShiroClient.QueryBlock expected a transaction_events field")
    ELSE IF result.v["transaction_events"].k # "slice"
    THEN QueryBlockErr("ShiroClient.QueryBlock expected an array transaction_events field")
    ELSE IF ~AllStrings(result.v["transaction_events"])
    THEN QueryBlockErr("ShiroClient.QueryBlock expected a string transaction_event member")
    ELSE IF \E i \in DOMAIN result.v["transaction_events"].v :
                ~Base64Decode(result.v["transaction_events"].v[i].v).ok
    THEN QueryBlockErr("ShiroClient.QueryBlock expected a base64 string transaction_event member")
    ELSE IF ~HasKey(result, "chaincode_ids")
    THEN QueryBlockErr("ShiroClient.QueryBlock expected a chaincode_ids field")
    ELSE IF result.v["chaincode_ids"].k # "slice"
    THEN QueryBlockErr("ShiroClient.QueryBlock expected an array chaincode_ids field")
    ELSE IF ~AllStrings(result.v["chaincode_ids"])
    THEN QueryBlockErr("ShiroClient.QueryBlock expected a string chaincode_id member")
    ELSE
    LET txidsOut == StringsOf(result.v["transaction_ids"])
        reasonsOut == StringsOf(result.v["transaction_reasons"])
        events == StringsOf(result.v["transaction_events"])
        eventsOut == [i \in DOMAIN events |-> Base64Decode(events[i]).bytes]
        ccidsOut == StringsOf(result.v["chaincode_ids"])
    IN  IF MismatchedParallelArrays(txidsOut, reasonsOut)
        THEN QueryBlockErr("ShiroClient.QueryBlock: mismatched parallel arrays")
        ELSE IF \E i \in DOMAIN txidsOut : i > Len(eventsOut) \/ i > Len(ccidsOut)
        THEN Returned(IndexOutOfRange, NoError)
        ELSE Returned(NewBlock(result.v["block_hash"].v,
                               [i \in DOMAIN txidsOut |->
                                  NewTransaction(txidsOut[i], reasonsOut[i],
                                                 eventsOut[i], ccidsOut[i])]),
                      NoError)

\* The switch on res.errorLevel of QueryBlock.
QueryBlockClassify(res) ==
    CASE res.errorLevel = ErrorLevelNoError -> QueryBlockDecode(res.result)
      [] res.errorLevel = ErrorLevelShiroClient ->
           Returned(NilResponse, getShiroClientError(res))
      [] OTHER ->
           Returned(NilResponse, ErrorsNew("ShiroClient.QueryBlock unexpected error level"))

QueryBlockReturn(base, cfgs, gw) ==
    LET opt == applyConfigs(base, cfgs)
        rr == reqres(opt, gw)
    IN  IF rr.err # NoError THEN Returned(NilResponse, rr.err) ELSE QueryBlockClassify(rr.res)

\* The parallel arrays a gateway may send: n strings, or no member at all, or
\* null, or an array with a member of the wrong kind.
TxIDNames == <<"tx1", "tx2", "tx3", "tx4">>
ReasonNames == <<"VALID", "MVCC_READ_CONFLICT", "VALID", "VALID">>
EventNames == <<"ZXYx", "", "ZXYy", "ZXYx">>
ChaincodeNames == <<"cc1", "cc1", "cc2", "cc2">>
ArrayOf(names, n) == WArr([i \in 1..n |-> WStr(names[i])])
ArrayValues(names, bad) ==
    {Absent, WNull, WArr(<<bad>>)} \cup {ArrayOf(names, n) : n \in 0..MaxTx}

BlockResult(hash, ids, reasons, events, ccids) ==
    WObj(Members(<< <<"block_hash", hash>>, <<"transaction_ids", ids>>,
                    <<"transaction_reasons", reasons>>, <<"transaction_events", events>>,
                    <<"chaincode_ids", ccids>> >>))

QueryBlockBodies ==
    { WInvalid,
      Body(WStr("2.0"), ResultObject(WNum("0"), WNull, WNum("0"), WStr(""), WNull), Absent),
      Body(WStr("2.0"), ResultObject(WNum("1"), WNull, WNum("1"), WStr("timeout"), WNull),
           Absent),
      Body(WStr("2.0"), ResultObject(WNum("2"), WNull, WNum("2"), WStr(""), WNull), Absent) }
    \cup
    { Body(WStr("2.0"),
           ResultObject(WNum("0"), BlockResult(hash, ids, reasons, events, ccids),
                        WNum("0"), WStr(""), WNull),
           Absent) :
        hash \in {Absent, WNum("1"), WStr("h")},
        ids \in ArrayValues(TxIDNames, WNum("1")),
        reasons \in ArrayValues(ReasonNames, WNull),
        events \in ArrayValues(EventNames, WStr("!")),
        ccids \in ArrayValues(ChaincodeNames, WBool(TRUE)) }

QueryBlockGateways ==
    { DoRequestErr(ErrorsNew("dial tcp: connection refused")) }
    \cup { DoRequestOk(body) : body \in QueryBlockBodies }

QueryBlockInit ==
    /\ BlockIdle
    /\ DriverIdle
    /\ AccessIdle
    /\ WrapIdle
    /\ RequestIdle
    /\ HealthIdle
    /\ FlattenIdle
    /\ MockIdle
    /\ SyncIdle
    /\ CfgIdle
    /\ BatchIdle
    /\ ReqIdle
    /\ baseConfig = <<WithEndpoint(Endpoint)>>
    /\ configs \in { <<>>, <<WithEndpoint("")>> }
    /\ gateway \in QueryBlockGateways
    /\ rpcPc = "start"
    /\ operation = "QueryBlock"
    /\ ret = NotReturned
    /\ wraps = 0

\* QueryBlock(blockNumber, configs...) runs to its return or to its panic.
QueryBlock ==
    /\ rpcPc = "start"
    /\ ret' = QueryBlockReturn(baseConfig, configs, gateway)
    /\ rpcPc' = "done"
    /\ UNCHANGED <<blockVars, driverVars, accessVars, wrapVars, requestVars, healthVars, flattenVars, mockVars, syncVars, operation, baseConfig, configs, gateway, wraps, cfgVars, batchVars, reqVars>>

SpecQueryBlock == QueryBlockInit /\ [][QueryBlock]_vars

\* The four parallel arrays as they were sent.
SentArrays ==
    [key \in {"transaction_ids", "transaction_reasons", "transaction_events",
              "chaincode_ids"} |-> WField(SentMember(gateway, "result"), key)]

\* A level-0 response came back whose result carries the four arrays.
BlockArraysReceived ==
    /\ rpcPc = "done" /\ Received /\ IsEnvelope(gateway) /\ SentLevel(gateway, "0")
    /\ \A key \in DOMAIN SentArrays : SentArrays[key].k = "arr"

\* C10: for a level-0 response whose four parallel arrays are not all of the
\* same length, QueryBlock returns an error and no Block: it neither builds a
\* Block from part of the arrays nor fails in another way.
C10_AnyLengthMismatchIsDecodeError ==
    (BlockArraysReceived
     /\ \E a, b \in DOMAIN SentArrays : Len(SentArrays[a].v) # Len(SentArrays[b].v))
    => ret.resp = NilResponse /\ ret.err # NoError

\* A level-0 response whose result has a string block_hash and four arrays
\* of strings, the events being base64 text.
WellTypedBlock ==
    /\ BlockArraysReceived
    /\ WField(SentMember(gateway, "result"), "block_hash").k = "str"
    /\ \A key \in DOMAIN SentArrays :
         \A i \in DOMAIN SentArrays[key].v : SentArrays[key].v[i].k = "str"
    /\ \A i \in DOMAIN SentArrays["transaction_events"].v :
         Base64Decode(SentArrays["transaction_events"].v[i].v).ok

IdsAndReasonsDiffer ==
    Len(SentArrays["transaction_ids"].v) # Len(SentArrays["transaction_reasons"].v)

\* C11: for a well-typed level-0 response whose transaction_ids and
\* transaction_reasons differ in length, QueryBlock returns the error
\* "mismatched parallel arrays" and no Block, whatever the lengths of the
\* events and of the chaincode identifiers.
C11_IdsReasonsMismatchIsError ==
    (WellTypedBlock /\ IdsAndReasonsDiffer)
    => /\ ret.resp = NilResponse
       /\ ret.err = ErrorsNew("ShiroClient.QueryBlock: mismatched parallel arrays")

\* One identifier and two reasons were sent, and the call has failed.
C11_Witness ==
    /\ WellTypedBlock
    /\ Len(SentArrays["transaction_ids"].v) = 1
    /\ Len(SentArrays["transaction_reasons"].v) = 2
    /\ Len(SentArrays["transaction_events"].v) = 2
    /\ ret.err # NoError

----------------------------------------------------------------------------
(* Rounds that meet an envelope with a blank field.                         *)

HasBlankEnvelope(envs) == \E i \in DOMAIN envs : BlankFields(envs[i])

\* C12: in a round whose envelopes include one with a blank batch id, request
\* id or message, no envelope of the round is processed: no callback is
\* invoked and nothing is reported for any of them.
C12_BlankEnvelopeStarvesAllSiblings ==
    \A r \in DOMAIN rounds :
        HasBlankEnvelope(rounds[r].envs) =>
            \A t \in DOMAIN rounds[r].tasks : rounds[r].tasks[t].state = "callback"

\* What holds instead: the envelopes from the first blank one on get no
\* goroutine, and the round returns once the earlier ones have finished.
C12_EnvelopesFromBlankOnAreSkipped ==
    \A r \in DOMAIN rounds :
        HasBlankEnvelope(rounds[r].envs) =>
            /\ Len(rounds[r].tasks) < Len(rounds[r].envs)
            /\ \A t \in DOMAIN rounds[r].tasks :
                 /\ rounds[r].tasks[t].env = rounds[r].envs[t]
                 /\ ~BlankFields(rounds[r].envs[t])
            /\ BlankFields(rounds[r].envs[Len(rounds[r].tasks) + 1])

\* A round with a blank second envelope has returned after the response to
\* its first envelope was recorded by the backend.
C12_SiblingBeforeBlankReported ==
    \E r \in DOMAIN rounds :
        /\ rounds[r].pc = "returned"
        /\ Len(rounds[r].envs) = 2 /\ BlankFields(rounds[r].envs[2])
        /\ rounds[r].tasks[1].state = "done"
        /\ rounds[r].tasks[1].resp \in {recorded[i] : i \in DOMAIN recorded}

----------------------------------------------------------------------------
(* The response envelope of a dispatched envelope.                          *)

\* The goroutines whose callback has returned.
Answered == {<<r, t>> \in (DOMAIN rounds) \X (1..MaxRequests + 1) :
               t \in DOMAIN rounds[r].tasks /\ rounds[r].tasks[t].state # "callback"}

Recorded == {recorded[i] : i \in DOMAIN recorded}

\* C13: the response envelope of a dispatched envelope has the request's
\* batch id and request id; when the callback returned a payload and no
\* error it has is_error false and that payload, and otherwise it has
\* is_error true and the JSON string of the error's text.  What the backend
\* records is such an envelope: for "ping2" the string "ping2 error".
C13_ResponseEnvelopeCarriesOutcome ==
    /\ \A a \in Answered :
         LET env == rounds[a[1]].tasks[a[2]].env
             resp == rounds[a[1]].tasks[a[2]].resp
             cb == callback(env.Message)
         IN /\ resp.BatchID = env.BatchID
            /\ resp.RequestID = env.RequestID
            /\ IF cb.err = NoError /\ cb.response # ""
               THEN ~resp.IsError /\ resp.Message = cb.response
               ELSE /\ resp.IsError
                    /\ resp.Message =
                         IF cb.err # NoError THEN MarshalString(cb.err.msg)
                         ELSE "\"Batch::Tick: zero-length response\""
    /\ \A resp \in Recorded :
         /\ \E a \in Answered : rounds[a[1]].tasks[a[2]].resp = resp
         /\ resp.RequestID = "r1" => resp = ResponseEnvelope("b1", "r1", FALSE, "\"pong1\"")
         /\ resp.RequestID = "r2" =>
                resp = ResponseEnvelope("b1", "r2", TRUE, "\"ping2 error\"")

\* The backend has recorded the payload for "ping1" and the error for "ping2".
C13_Witness ==
    /\ \E resp \in Recorded : resp.RequestID = "r1" /\ ~resp.IsError
    /\ \E resp \in Recorded : resp.RequestID = "r2" /\ resp.IsError

\* The callback returned a nil error and no payload.
NeitherPayloadNorError(cb) == cb.err = NoError /\ cb.response = ""

\* C14: when the callback returns a nil error and an empty payload, the
\* response envelope has is_error true and the JSON string of the
\* zero-length-response error; no envelope, built or recorded, is a success
\* with an empty payload.
C14_EmptyPayloadIsReportedAsError ==
    /\ \A a \in Answered :
         LET task == rounds[a[1]].tasks[a[2]] IN
         /\ NeitherPayloadNorError(callback(task.env.Message)) =>
               /\ task.resp.IsError
               /\ task.resp.Message = "\"Batch::Tick: zero-length response\""
         /\ ~(task.resp.IsError = FALSE /\ task.resp.Message = "")
    /\ \A resp \in Recorded : ~(resp.IsError = FALSE /\ resp.Message = "")

\* The backend has recorded the response to a request whose callback
\* returned neither a payload nor an error.
C14_Witness ==
    \E a \in Answered :
        LET task == rounds[a[1]].tasks[a[2]] IN
        /\ NeitherPayloadNorError(callback(task.env.Message))
        /\ task.state = "done"
        /\ task.resp \in Recorded

----------------------------------------------------------------------------
(* The failure modes of a round.                                            *)

\* The poll loop, the timer and the Pause flag are as they were, and so is
\* every other invocation of Tick.
PollingUntouched(r) ==
    /\ loop' = loop /\ tickerC' = tickerC /\ tickerStopped' = tickerStopped
    /\ enable' = enable /\ overrideSenders' = overrideSenders
    /\ Len(rounds') = Len(rounds)
    /\ \A k \in DOMAIN rounds : k # r => rounds'[k] = rounds[k]

\* The failures of batch_get_requests and of the decoding of its result.
GetFailure(r) ==
    \E o \in GetOutcomes \ {"ok"} : RoundGetWith(r, o)

\* batch_get_requests returned envelopes of which one has a blank field.
GetBlank(r) == RoundGetWith(r, "ok") /\ HasBlankEnvelope(queue)

\* The callback returned neither a payload nor an error.
CallbackZeroLength(r, t) ==
    TaskCallback(r, t) /\ NeitherPayloadNorError(callback(rounds[r].tasks[t].env.Message))

\* The failures of batch_process_response.
ReportFailure(r, t) ==
    \E o \in CallOutcomes \ {"ok"} : TaskReportWith(r, t, o)

\* C15: whichever way a round fails, the failure stays inside the round.  A
\* failed batch_get_requests or an undecodable result makes Tick return at
\* once with nothing dispatched; a blank envelope ends the dispatching; a
\* zero-length response becomes an error envelope; a failed report leaves
\* the request pending and ends the goroutine.  None of them touches the
\* poll loop, the timer, the Pause flag or another round, and the poll loop
\* never leaves its select: later firings and overrides start rounds as
\* before.
C15_FailuresStayInsideTheRound ==
    /\ [][\A r \in DOMAIN rounds :
            /\ GetFailure(r) =>
                 /\ rounds'[r].pc = "returned" /\ rounds'[r].tasks = <<>>
                 /\ recorded' = recorded /\ queue' = queue
                 /\ PollingUntouched(r)
            /\ GetBlank(r) =>
                 /\ rounds'[r].pc = "wait"
                 /\ Len(rounds'[r].tasks) < Len(queue)
                 /\ recorded' = recorded /\ queue' = queue
                 /\ PollingUntouched(r)
            /\ \A t \in DOMAIN rounds[r].tasks :
                 /\ CallbackZeroLength(r, t) =>
                      /\ rounds'[r].tasks[t].state = "report"
                      /\ rounds'[r].tasks[t].resp.IsError
                      /\ PollingUntouched(r)
                 /\ ReportFailure(r, t) =>
                      /\ rounds'[r].tasks[t].state = "done"
                      /\ recorded' = recorded /\ queue' = queue
                      /\ PollingUntouched(r)]_vars
    /\ [](loop.pc \in {"select", "decide"})

\* A round has returned without dispatching the request that is still
\* pending, and a round started after it has dispatched that request.
C15_Witness ==
    \E r1, r2 \in DOMAIN rounds :
        /\ r1 < r2
        /\ queue # <<>>
        /\ rounds[r1].pc = "returned" /\ rounds[r1].tasks = <<>>
        /\ rounds[r2].tasks # <<>>

----------------------------------------------------------------------------
(* syncClient: the decorator returned by NewSync.                           *)

\* The methods of syncClient; each one locks, defers the unlock and calls
\* the method of the same name of the underlying client.
SyncOperations ==
    {"Seed", "ShiroPhylum", "Init", "Call", "QueryInfo", "QueryBlock", "Close",
     "Snapshot", "SetCreatorWithAttributes"}

Callers == 1..MaxCallers

\* A goroutine is outside the decorator, in c.mutex.Lock(), in the method of
\* the underlying client, or past it with the deferred Unlock still to run.
IdleCaller == [pc |-> "idle", op |-> "none", how |-> "none"]

\* c.mutex.Lock() returns only when the mutex is not locked.
MutexAlwaysAvailable == TRUE
MutexAvailable == ~mutex

\* NewSync: a new mutex, unlocked, around the underlying client.
SyncInit ==
    /\ BlockIdle
    /\ DriverIdle
    /\ AccessIdle
    /\ WrapIdle
    /\ RequestIdle
    /\ HealthIdle
    /\ FlattenIdle
    /\ MockIdle
    /\ RpcIdle /\ wraps = 0
    /\ CfgIdle
    /\ BatchIdle
    /\ ReqIdle
    /\ mutex = FALSE
    /\ callers = [c \in Callers |-> IdleCaller]

\* A goroutine calls a method of the decorator and reaches c.mutex.Lock().
SyncInvoke(c, op) ==
    /\ callers[c].pc \in {"idle", "returned"}
    /\ callers' = [callers EXCEPT ![c] = [pc |-> "lock", op |-> op, how |-> "none"]]
    /\ UNCHANGED <<blockVars, driverVars, accessVars, wrapVars, requestVars, healthVars, flattenVars, mockVars, rpcVars, cfgVars, batchVars, reqVars, mutex>>

\* c.mutex.Lock() returns and the method of the underlying client begins.
SyncLock(c) ==
    /\ callers[c].pc = "lock"
    /\ MutexAvailable
    /\ mutex' = TRUE
    /\ callers' = [callers EXCEPT ![c].pc = "underlying"]
    /\ UNCHANGED <<blockVars, driverVars, accessVars, wrapVars, requestVars, healthVars, flattenVars, mockVars, rpcVars, cfgVars, batchVars, reqVars>>

\* The method of the underlying client ends: it returns or it panics.
SyncUnderlying(c) ==
    /\ callers[c].pc = "underlying"
    /\ \E how \in {"return", "panic"} :
         callers' = [callers EXCEPT ![c].pc = "deferred", ![c].how = how]
    /\ UNCHANGED <<blockVars, driverVars, accessVars, wrapVars, requestVars, healthVars, flattenVars, mockVars, rpcVars, cfgVars, batchVars, reqVars, mutex>>

\* The deferred c.mutex.Unlock() runs, then the method of the decorator
\* returns to its caller or the panic goes on.
SyncUnlock(c) ==
    /\ callers[c].pc = "deferred"
    /\ mutex' = FALSE
    /\ callers' = [callers EXCEPT ![c].pc =
                      IF callers[c].how = "panic" THEN "panicked" ELSE "returned"]
    /\ UNCHANGED <<blockVars, driverVars, accessVars, wrapVars, requestVars, healthVars, flattenVars, mockVars, rpcVars, cfgVars, batchVars, reqVars>>

SyncNext ==
    \E c \in Callers :
        \/ \E op \in SyncOperations : SyncInvoke(c, op)
        \/ SyncLock(c)
        \/ SyncUnderlying(c)
        \/ SyncUnlock(c)

SpecSync == SyncInit /\ [][SyncNext]_vars

\* The goroutines inside a method of the underlying client, and those
\* between Lock and the deferred Unlock.
InUnderlying == {c \in Callers : callers[c].pc = "underlying"}
HoldingMutex == {c \in Callers : callers[c].pc \in {"underlying", "deferred"}}

\* C17: whatever the interleaving of the callers and whichever of the nine
\* methods they call, at most one goroutine is inside the underlying client,
\* at most one is between Lock and Unlock, and the mutex is locked exactly
\* while one is: once a method has returned or panicked, its lock is
\* released.
C17_OneOperationAtATime ==
    /\ Cardinality(InUnderlying) <= 1
    /\ Cardinality(HoldingMutex) <= 1
    /\ mutex <=> HoldingMutex # {}

\* One goroutine waits in Lock for Close while another, whose Call has
\* panicked in the underlying client, still holds the mutex.
C17_Witness ==
    \E c1, c2 \in Callers :
        /\ callers[c1] = [pc |-> "deferred", op |-> "Call", how |-> "panic"]
        /\ callers[c2].pc = "lock" /\ callers[c2].op = "Close"
        /\ mutex

----------------------------------------------------------------------------
(* The two variants of a Response.                                          *)

\* C18: a Response returned by Call is a success or a failure and nothing
\* else.  A success has a nil Error().  A failure has a non-nil Error(), a
\* nil ResultJSON(), an empty TransactionID() and an UnmarshalTo that fails
\* whatever the destination.  No Response has both a result and an error.
C18_ResponseIsOneVariant ==
    (rpcPc = "done" /\ ret.resp # NilResponse) =>
        /\ ret.resp.kind \in {"success", "failure"}
        /\ ret.resp.kind = "success" => RespError(ret.resp) = NilResponse
        /\ ret.resp.kind = "failure" =>
              /\ RespError(ret.resp) # NilResponse
              /\ ResultJSON(ret.resp) = NilBytes
              /\ TransactionID(ret.resp) = ""
              /\ \A dstFits \in BOOLEAN : UnmarshalTo(ret.resp, dstFits) # NoError
        /\ ~(ResultJSON(ret.resp) # NilBytes /\ RespError(ret.resp) # NilResponse)

\* Call has returned a failure Response that carries data.
C18_Witness ==
    /\ rpcPc = "done" /\ ret.err = NoError
    /\ ret.resp.kind = "failure"
    /\ DataJSON(RespError(ret.resp)) # NilBytes

----------------------------------------------------------------------------
(* The five sub-fields of the result object.                                *)

SubFields == <<"error_level", "result", "code", "message", "data">>

\* A body came back that is a JSON-RPC 2.0 object with an object result.
ResultObjectReceived ==
    /\ rpcPc = "done" /\ Received
    /\ WField(gateway.body, "jsonrpc") = WStr("2.0")
    /\ SentResult(gateway).k = "obj"

MissingSubFields ==
    {i \in DOMAIN SubFields : SentMember(gateway, SubFields[i]) = Absent}

\* C19: when the result object of the response lacks one of error_level,
\* result, code, message and data, Call returns no Response and an error
\* made locally by reqres, which is not a client (level 1) error however
\* the caller unwraps it; when error_level is there and numeric the error
\* names the first sub-field that is missing.
C19_MissingSubFieldIsDecodeError ==
    (ResultObjectReceived /\ MissingSubFields # {}) =>
        /\ ret.resp = NilResponse
        /\ ret.err # NoError
        /\ ErrorsAsScError(ret.err) = NoError
        /\ ~IsTimeoutError(ret.err)
        /\ (wraps = 0 /\ SentMember(gateway, "error_level").k \in {"absent", "num"}) =>
              LET first == SubFields[CHOOSE i \in MissingSubFields :
                                       \A j \in MissingSubFields : i <= j]
              IN ret.err = ErrorsNew("ShiroClient.reqres expected a"
                                     \o (IF first = "error_level" THEN "n " ELSE " ")
                                     \o first \o " field")

\* A level-1 response without the data sub-field has been answered with
\* the error of the missing data field.
C19_Witness ==
    /\ ResultObjectReceived /\ SentLevel(gateway, "1")
    /\ MissingSubFields = {5}
    /\ ret.err = ErrorsNew("ShiroClient.reqres expected a data field")

----------------------------------------------------------------------------
(* Seed, ShiroPhylum, Init, QueryInfo and QueryBlock: the operations that   *)
(* accept the error levels 0 and 1 only.                                    *)

UnexpectedLevel(op) ==
    Returned(NilResponse, ErrorsNew("ShiroClient." \o op \o " unexpected error level"))

\* What ShiroPhylum and QueryInfo hand back with a nil error.
StringResult(str) == [kind |-> "string", v |-> str]
Uint64Result(n) == [kind |-> "uint64", v |-> n]

\* The switch on res.errorLevel of Seed.
SeedClassify(res) ==
    CASE res.errorLevel = ErrorLevelNoError -> Returned(NilResponse, NoError)
      [] res.errorLevel = ErrorLevelShiroClient ->
           Returned(NilResponse, getShiroClientError(res))
      [] OTHER -> UnexpectedLevel("Seed")

\* The switch on res.errorLevel of ShiroPhylum.
ShiroPhylumClassify(res) ==
    CASE res.errorLevel = ErrorLevelNoError ->
           IF res.result.k # "string"
           THEN Returned(NilResponse,
                         ErrorsNew("ShiroClient.ShiroPhylum expected string result field"))
           ELSE Returned(StringResult(res.result.v), NoError)
      [] res.errorLevel = ErrorLevelShiroClient ->
           Returned(NilResponse, getShiroClientError(res))
      [] OTHER -> UnexpectedLevel("ShiroPhylum")

\* The switch on res.errorLevel of Init.
InitClassifyAnyOtherLevelIsSuccess(res) ==
    CASE res.errorLevel = ErrorLevelShiroClient ->
           Returned(NilResponse, getShiroClientError(res))
      [] OTHER -> Returned(NilResponse, NoError)
InitClassify(res) ==
    CASE res.errorLevel = ErrorLevelNoError -> Returned(NilResponse, NoError)
      [] res.errorLevel = ErrorLevelShiroClient ->
           Returned(NilResponse, getShiroClientError(res))
      [] OTHER -> UnexpectedLevel("Init")

\* The switch on res.errorLevel of QueryInfo.
QueryInfoClassify(res) ==
    CASE res.errorLevel = ErrorLevelNoError ->
           IF res.result.k # "float64"
           THEN Returned(NilResponse,
                         ErrorsNew("ShiroClient.QueryInfo expected a numeric result field"))
           ELSE Returned(Uint64Result(FloatToInt(res.result.v)), NoError)
      [] res.errorLevel = ErrorLevelShiroClient ->
           Returned(NilResponse, getShiroClientError(res))
      [] OTHER -> UnexpectedLevel("QueryInfo")

LevelOperations == {"Seed", "ShiroPhylum", "Init", "QueryInfo", "QueryBlock"}

\* Each operation: the options, the round trip of reqres, then its switch.
OperationReturn(op, base, cfgs, gw) ==
    LET opt == applyConfigs(base, cfgs)
        rr == reqres(opt, gw)
    IN  IF rr.err # NoError THEN Returned(NilResponse, rr.err)
        ELSE CASE op = "Seed" -> SeedClassify(rr.res)
               [] op = "ShiroPhylum" -> ShiroPhylumClassify(rr.res)
               [] op = "Init" -> InitClassify(rr.res)
               [] op = "QueryInfo" -> QueryInfoClassify(rr.res)
               [] op = "QueryBlock" -> QueryBlockClassify(rr.res)

\* The responses these operations may get: each level from 0 to 3 with a
\* null, numeric, string or block result.
SomeBlock ==
    BlockResult(WStr("h"), ArrayOf(TxIDNames, 1), ArrayOf(ReasonNames, 1),
                ArrayOf(EventNames, 1), ArrayOf(ChaincodeNames, 1))

OperationBodies ==
    { Body(WStr("2.0"), ResultObject(level, result, code, message, WNull), Absent) :
        level \in {WNum("0"), WNum("1"), WNum("2"), WNum("3")},
        result \in {WNull, WNum("1"), WStr("a"), SomeBlock},
        code \in {WNum("0"), WNum("1")},
        message \in {WStr(""), WStr("timeout")} }

OperationInit ==
    /\ BlockIdle
    /\ DriverIdle
    /\ AccessIdle
    /\ WrapIdle
    /\ RequestIdle
    /\ HealthIdle
    /\ FlattenIdle
    /\ MockIdle
    /\ SyncIdle
    /\ CfgIdle
    /\ BatchIdle
    /\ ReqIdle
    /\ baseConfig = <<WithEndpoint(Endpoint)>>
    /\ configs \in { <<>>, <<WithEndpoint("")>> }
    /\ gateway \in {DoRequestOk(body) : body \in OperationBodies}
    /\ operation \in LevelOperations
    /\ rpcPc = "start"
    /\ ret = NotReturned
    /\ wraps = 0

\* The operation runs to its return.
Operate ==
    /\ rpcPc = "start"
    /\ ret' = OperationReturn(operation, baseConfig, configs, gateway)
    /\ rpcPc' = "done"
    /\ UNCHANGED <<blockVars, driverVars, accessVars, wrapVars, requestVars, healthVars, flattenVars, mockVars, syncVars, operation, baseConfig, configs, gateway, wraps, cfgVars,
                   batchVars, reqVars>>

SpecOperations == OperationInit /\ [][Operate]_vars

\* The result sent is of the kind the operation decodes.
ResultFits ==
    CASE operation = "ShiroPhylum" -> SentMember(gateway, "result").k = "str"
      [] operation = "QueryInfo" -> SentMember(gateway, "result").k = "num"
      [] operation = "QueryBlock" -> SentMember(gateway, "result") = SomeBlock
      [] OTHER -> TRUE

\* C20: for Seed, ShiroPhylum, Init, QueryInfo and QueryBlock, a response
\* of level 0 whose result fits is a success (a nil error), a response of
\* level 1 comes back as the client error built from its code and message,
\* and a response of any other level, 2 included, comes back as the
\* unexpected-error-level error, which is not a client error; no operation
\* returns a Failure Response.
C20_OnlyLevelsZeroAndOne ==
    (rpcPc = "done" /\ Received /\ IsValidResponse(gateway)) =>
        /\ ret.resp.kind # "failure"
        /\ (SentLevel(gateway, "0") /\ ResultFits) => ret.err = NoError
        /\ SentLevel(gateway, "1") =>
              /\ ret.resp = NilResponse
              /\ ret.err = ScError(Unquote(SentMember(gateway, "message").v),
                                   FloatToInt(ParseFloat(SentMember(gateway, "code").v)))
        /\ ~(SentLevel(gateway, "0") \/ SentLevel(gateway, "1")) =>
              /\ ret.resp = NilResponse
              /\ ret.err = ErrorsNew("ShiroClient." \o operation
                                     \o " unexpected error level")
              /\ ErrorsAsScError(ret.err) = NoError

\* Init has answered a response of level 2 with the unexpected-level error.
C20_Witness ==
    /\ rpcPc = "done" /\ Received /\ IsValidResponse(gateway)
    /\ operation = "Init" /\ SentLevel(gateway, "2")
    /\ ret.err = ErrorsNew("ShiroClient.Init unexpected error level")

----------------------------------------------------------------------------
(* The mock adapter: mockShiroClient over the substrate plugin, next to     *)
(* rpcShiroClient over the gateway, for one outcome of the backend.         *)

AdapterOperations == {"Seed", "ShiroPhylum", "Init", "Call", "QueryInfo", "QueryBlock"}

\* What the backend does with an operation: it carries it out, it fails it
\* at the application level (Call only), it reports a client-level error, or
\* it cannot be reached.
BackendSuccess == [kind |-> "success"]
BackendFailure(code, message) == [kind |-> "failure", code |-> code, message |-> message]
BackendClientError(code, message) ==
    [kind |-> "clientError", code |-> code, message |-> message]
BackendUnreachable == [kind |-> "transportError"]

BackendOutcomes(op) ==
    {BackendSuccess, BackendUnreachable}
    \cup {BackendClientError(code, message) : code \in {"0", "1"}, message \in {"", "timeout"}}
    \cup (IF op = "Call"
          THEN {BackendFailure(code, message) : code \in {"1", "2"}, message \in {"", "bad"}}
          ELSE {})

\* The value a successful operation yields, as the gateway sends it.
SuccessResult(op) ==
    CASE op = "ShiroPhylum" -> WStr("a")
      [] op = "QueryInfo" -> WNum("1")
      [] op = "QueryBlock" -> SomeBlock
      [] op = "Call" -> UnsortedObject
      [] OTHER -> WNull

\* The gateway's side of an outcome: no answer, or the JSON-RPC response.
GatewayFor(op, b) ==
    CASE b.kind = "transportError" ->
           DoRequestErr(ErrorsNew("dial tcp: connection refused"))
      [] b.kind = "clientError" ->
           DoRequestOk(Body(WStr("2.0"),
                            ResultObject(WNum("1"), WNull, WNum(b.code), WStr(b.message),
                                         WNull), Absent))
      [] b.kind = "failure" ->
           DoRequestOk(Body(WStr("2.0"),
                            ResultObject(WNum("2"), WNull, WNum(b.code), WStr(b.message),
                                         WNull), Absent))
      [] b.kind = "success" ->
           DoRequestOk(Body(WStr("2.0"),
                            ResultObject(WNum("0"), SuccessResult(op), WNum("0"), WStr(""),
                                         WNull),
                            IF op = "Call" THEN WStr("tx1") ELSE Absent))

\* PluginRPC.Call, Init, QueryInfo, QueryBlock: the error of the connection,
\* else the error the substrate answered with, else its answer.
PluginForward(op, b) ==
    CASE b.kind = "transportError" ->
           [err |-> ErrorsNew("connection is shut down"), resp |-> NilResponse]
      [] b.kind = "clientError" ->
           [err |-> ErrorsNew(b.message), resp |-> NilResponse]
      [] b.kind = "failure" ->
           [err |-> NoError,
            resp |-> [HasError |-> TRUE, ErrorCode |-> FloatToInt(ParseFloat(b.code)),
                      ErrorMessage |-> b.message, ErrorJSON |-> Marshal(Unmarshal(WNull)),
                      ResultJSON |-> NilBytes, TransactionID |-> ""]]
      [] b.kind = "success" ->
           [err |-> NoError,
            resp |-> [HasError |-> FALSE, ErrorCode |-> 0, ErrorMessage |-> "",
                      ErrorJSON |-> NilBytes,
                      ResultJSON |-> Marshal(Unmarshal(SuccessResult(op))),
                      TransactionID |-> IF op = "Call" THEN "tx1" ELSE ""]]

\* mockShiroClient.Seed
MockSeed(b) == Returned(NilResponse, ErrorsNew("Seed(...) is not supported"))

\* mockShiroClient.ShiroPhylum: the name the client was made with.
MockShiroPhylum(b) == Returned(StringResult("phylum"), NoError)

\* mockShiroClient.Init
MockInit(b) == Returned(NilResponse, PluginForward("Init", b).err)

\* mockShiroClient.Call
MockCallErrorForFailure(b) ==
    LET fw == PluginForward("Call", b) IN
    IF fw.err # NoError THEN Returned(NilResponse, fw.err)
    ELSE IF fw.resp.HasError THEN Returned(NilResponse, ErrorsNew(fw.resp.ErrorMessage))
    ELSE Returned(NewSuccessResponse(fw.resp.ResultJSON, fw.resp.TransactionID), NoError)
MockCall(b) ==
    LET fw == PluginForward("Call", b) IN
    IF fw.err # NoError THEN Returned(NilResponse, fw.err)
    ELSE IF fw.resp.HasError
    THEN Returned(NewFailureResponse(fw.resp.ErrorCode, fw.resp.ErrorMessage,
                                     fw.resp.ErrorJSON), NoError)
    ELSE Returned(NewSuccessResponse(fw.resp.ResultJSON, fw.resp.TransactionID), NoError)

\* mockShiroClient.QueryInfo
MockQueryInfo(b) ==
    LET fw == PluginForward("QueryInfo", b) IN
    IF fw.err # NoError THEN Returned(Uint64Result(0), fw.err)
    ELSE Returned(Uint64Result(1), NoError)

\* mockShiroClient.QueryBlock
MockQueryBlock(b) ==
    LET fw == PluginForward("QueryBlock", b) IN
    IF fw.err # NoError THEN Returned(NilResponse, fw.err)
    ELSE Returned(NewBlock("h", <<NewTransaction("tx1", "VALID", "ev1", "cc1")>>), NoError)

MockReturn(op, b) ==
    CASE op = "Seed" -> MockSeed(b)
      [] op = "ShiroPhylum" -> MockShiroPhylum(b)
      [] op = "Init" -> MockInit(b)
      [] op = "Call" -> MockCall(b)
      [] op = "QueryInfo" -> MockQueryInfo(b)
      [] op = "QueryBlock" -> MockQueryBlock(b)

\* The same operation of rpcShiroClient.
RpcReturn(op, base, cfgs, gw) ==
    IF op = "Call" THEN CallReturn(base, cfgs, gw) ELSE OperationReturn(op, base, cfgs, gw)

AdapterInit ==
    /\ BlockIdle
    /\ DriverIdle
    /\ AccessIdle
    /\ WrapIdle
    /\ RequestIdle
    /\ HealthIdle
    /\ FlattenIdle
    /\ SyncIdle
    /\ CfgIdle
    /\ BatchIdle
    /\ ReqIdle
    /\ baseConfig = <<WithEndpoint(Endpoint)>>
    /\ configs = <<>>
    /\ operation \in AdapterOperations
    /\ backend \in BackendOutcomes(operation)
    /\ gateway = GatewayFor(operation, backend)
    /\ rpcPc = "start"
    /\ ret = NotReturned
    /\ wraps = 0
    /\ mockPc = "start"
    /\ mockRet = NotReturned

\* The operation on the RPC client runs to its return.
RpcOperate ==
    /\ rpcPc = "start"
    /\ ret' = RpcReturn(operation, baseConfig, configs, gateway)
    /\ rpcPc' = "done"
    /\ UNCHANGED <<blockVars, driverVars, accessVars, wrapVars, requestVars, healthVars, flattenVars, syncVars, mockVars, operation, baseConfig, configs, gateway, wraps,
                   cfgVars, batchVars, reqVars>>

\* The operation on the mock client runs to its return.
MockOperate ==
    /\ mockPc = "start"
    /\ mockRet' = MockReturn(operation, backend)
    /\ mockPc' = "done"
    /\ UNCHANGED <<blockVars, driverVars, accessVars, wrapVars, requestVars, healthVars, flattenVars, syncVars, rpcVars, cfgVars, batchVars, reqVars, backend>>

AdapterNext == RpcOperate \/ MockOperate

SpecAdapters == AdapterInit /\ [][AdapterNext]_vars

\* The kind of what an operation returned: an error, a Failure Response
\* with a nil error, or a success (a Success Response, a value, or nothing).
ResultKind(r) ==
    IF r.err # NoError THEN "error"
    ELSE IF r.resp.kind = "failure" THEN "failure"
    ELSE "success"

BothReturned == rpcPc = "done" /\ mockPc = "done"

\* C21 as stated: for every operation and every outcome of the backend,
\* the mock client and the RPC client return the same kind of result.
C21_SameKindForEveryOperation ==
    BothReturned => ResultKind(mockRet) = ResultKind(ret)

\* C21 amended: the two clients return the same kind of result for Init,
\* Call, QueryInfo and QueryBlock; the mock client's Seed returns an error
\* whatever the backend does, and its ShiroPhylum returns the client's
\* phylum name and a nil error whatever the backend does.
C21_SameKindExceptSeedAndShiroPhylum ==
    BothReturned =>
        /\ operation \in {"Init", "Call", "QueryInfo", "QueryBlock"} =>
              ResultKind(mockRet) = ResultKind(ret)
        /\ operation = "Seed" => ResultKind(mockRet) = "error"
        /\ operation = "ShiroPhylum" => mockRet = Returned(StringResult("phylum"), NoError)

\* Both clients have returned a Failure Response for a Call that the
\* backend failed at the application level.
C21_Witness ==
    /\ BothReturned /\ operation = "Call" /\ backend.kind = "failure"
    /\ ResultKind(mockRet) = "failure" /\ ResultKind(ret) = "failure"

----------------------------------------------------------------------------
(* Concurrent calls on one client: how each call builds its options from   *)
(* the client's base configs and its own.  A Go slice is its length and   *)
(* the array behind it; spare holds the slots of baseConfig's array that  *)
(* lie beyond its length.                                                 *)

ClientKinds == {"rpc", "mock"}

\* The configs a call is made with.
CallConfigs ==
    {<<>>, <<WithID("a")>>, <<WithID("b")>>, <<WithHeader("k", "a"), WithAuthToken("t")>>}

\* The base configs a client is made with.
BaseConfigLists == {<<>>, <<WithEndpoint(Endpoint)>>, <<WithID("c"), WithHeader("k", "c")>>}

IdleFlatten ==
    [pc |-> "idle", configs |-> <<>>, shared |-> FALSE, list |-> <<>>, i |-> 0,
     opt |-> DefaultRequestOptions]

\* append(c.baseConfig, configs...): within the capacity of baseConfig the
\* configs are written into its array and the result shares it; beyond the
\* capacity a new array is allocated.
AppendFits(cfgs) == Len(cfgs) <= Len(spare)
AppendInPlace(cfgs) ==
    [i \in DOMAIN spare |-> IF i <= Len(cfgs) THEN cfgs[i] ELSE spare[i]]

\* The list a call ranges over, as it stands when the call reads it.
FlattenList(f) ==
    IF f.shared THEN baseConfig \o SubSeq(spare, 1, Len(f.configs)) ELSE f.list

IsolationInit ==
    /\ BlockIdle
    /\ DriverIdle
    /\ AccessIdle
    /\ WrapIdle
    /\ RequestIdle
    /\ HealthIdle
    /\ MockIdle
    /\ SyncIdle
    /\ CfgIdle
    /\ BatchIdle
    /\ ReqIdle
    /\ baseConfig \in BaseConfigLists
    /\ configs = <<>>
    /\ gateway = DoRequestOk(WNull)
    /\ rpcPc = "idle"
    /\ operation = "none"
    /\ ret = NotReturned
    /\ wraps = 0
    /\ clientKind \in ClientKinds
    /\ spare \in {MakeConfigs(n) : n \in 0..MaxConfigs}
    /\ flattens = [c \in Callers |-> IdleFlatten]

\* rpcShiroClient.applyConfigs: fresh options, and the two lists are read
\* where they are.
RpcApplyConfigsStart(c, cfgs) ==
    /\ clientKind = "rpc"
    /\ flattens[c].pc = "idle"
    /\ flattens' = [flattens EXCEPT ![c] =
                       [pc |-> "applying", configs |-> cfgs, shared |-> FALSE,
                        list |-> baseConfig \o cfgs, i |-> 0,
                        opt |-> DefaultRequestOptions]]
    /\ UNCHANGED <<blockVars, driverVars, accessVars, wrapVars, requestVars, healthVars, mockVars, syncVars, rpcVars, cfgVars, batchVars, reqVars, clientKind, spare>>

\* mockShiroClient.flatten up to the call of types.ApplyConfigs: the
\* argument list is append(c.baseConfig, configs...).
MockFlattenStart(c, cfgs) ==
    /\ clientKind = "mock"
    /\ flattens[c].pc = "idle"
    /\ IF AppendFits(cfgs)
       THEN /\ spare' = AppendInPlace(cfgs)
            /\ flattens' = [flattens EXCEPT ![c] =
                               [pc |-> "applying", configs |-> cfgs, shared |-> TRUE,
                                list |-> <<>>, i |-> 0, opt |-> DefaultRequestOptions]]
       ELSE /\ spare' = spare
            /\ flattens' = [flattens EXCEPT ![c] =
                               [pc |-> "applying", configs |-> cfgs, shared |-> FALSE,
                                list |-> baseConfig \o cfgs, i |-> 0,
                                opt |-> DefaultRequestOptions]]
    /\ UNCHANGED <<blockVars, driverVars, accessVars, wrapVars, requestVars, healthVars, mockVars, syncVars, rpcVars, cfgVars, batchVars, reqVars, clientKind>>

\* One turn of the loop that applies the configs: the next element is read
\* from the list and invoked on the options of this call.
ApplyNextConfig(c) ==
    /\ flattens[c].pc = "applying"
    /\ flattens[c].i < Len(FlattenList(flattens[c]))
    /\ flattens' = [flattens EXCEPT
                       ![c].i = @ + 1,
                       ![c].opt = ConfigFn(FlattenList(flattens[c])[flattens[c].i + 1], @)]
    /\ UNCHANGED <<blockVars, driverVars, accessVars, wrapVars, requestVars, healthVars, mockVars, syncVars, rpcVars, cfgVars, batchVars, reqVars, clientKind, spare>>

\* The loop is over: the call has its options.
ApplyConfigsDone(c) ==
    /\ flattens[c].pc = "applying"
    /\ flattens[c].i = Len(FlattenList(flattens[c]))
    /\ flattens' = [flattens EXCEPT ![c].pc = "done"]
    /\ UNCHANGED <<blockVars, driverVars, accessVars, wrapVars, requestVars, healthVars, mockVars, syncVars, rpcVars, cfgVars, batchVars, reqVars, clientKind, spare>>

IsolationNext ==
    \E c \in Callers :
        \/ \E cfgs \in CallConfigs : RpcApplyConfigsStart(c, cfgs)
        \/ \E cfgs \in CallConfigs : MockFlattenStart(c, cfgs)
        \/ ApplyNextConfig(c)
        \/ ApplyConfigsDone(c)

SpecIsolation == IsolationInit /\ [][IsolationNext]_vars

\* The options of a finished call are the defaults changed by the base
\* configs and by the configs of that call, and by nothing else.
OwnOptionsOnly(c) ==
    flattens[c].pc = "done" =>
        flattens[c].opt = applyConfigs(baseConfig, flattens[c].configs)

\* C22: the options of every call on a client, concurrent calls included,
\* start from the defaults and hold the base configs and the configs passed
\* to that call only, never the configs passed to another call.
C22_OptionsAreNeverShared == \A c \in Callers : OwnOptionsOnly(c)

\* The same on the RPC client, whose applyConfigs appends nothing to the
\* base list.
C22_HoldsOnRpcClient ==
    clientKind = "rpc" => \A c \in Callers : OwnOptionsOnly(c)

\* The same on the mock client when the base list has no spare capacity.
C22_HoldsWithoutSpareCapacity ==
    (clientKind = "mock" /\ spare = <<>>) => \A c \in Callers : OwnOptionsOnly(c)

\* A call on the mock client finished with the configs of another call in
\* its options.
C22_OtherCallsConfigsApplied ==
    \E c, d \in Callers :
        /\ c # d /\ clientKind = "mock"
        /\ flattens[c].pc = "done" /\ flattens[c].configs = <<WithID("a")>>
        /\ flattens[d].configs = <<WithID("b")>>
        /\ flattens[c].opt.ID = "b"

----------------------------------------------------------------------------
(* HealthCheck: the URL of the gateway's health endpoint and the decoding  *)
(* of its answer.                                                          *)

MaxServices == 2

ServiceNames == {"fabric_peer", "phylum", "a b"}
ServiceLists == UNION {[1..n -> ServiceNames] : n \in 0..MaxServices}

QuerySuffix(q) == IF q = "" THEN "" ELSE "?" \o q

\* The endpoints of the model up to their query string, with what url.Parse
\* makes of them; trimmed is the text without a trailing slash.
EndpointPrefixes ==
    { [text |-> "https://localhost", Host |-> "https://localhost", Path |-> "",
       trimmed |-> "https://localhost"],
      [text |-> "https://localhost/", Host |-> "https://localhost", Path |-> "/",
       trimmed |-> "https://localhost"],
      [text |-> "https://localhost/api", Host |-> "https://localhost", Path |-> "/api",
       trimmed |-> "https://localhost/api"],
      [text |-> "https://localhost/api/", Host |-> "https://localhost", Path |-> "/api/",
       trimmed |-> "https://localhost/api"] }

\* Query strings an endpoint comes with; the last one has a bad escape.
EndpointQueries == {"", "a=1", "b=2&a=1", "a=%zz"}

HealthEndpoints ==
    {""} \cup {pre.text \o QuerySuffix(q) : pre \in EndpointPrefixes, q \in EndpointQueries}

\* url.Parse
Parse(endpoint) ==
    IF endpoint = "" THEN [Host |-> "", Path |-> "", RawQuery |-> ""]
    ELSE LET pq == CHOOSE pq \in EndpointPrefixes \X EndpointQueries :
                       endpoint = pq[1].text \o QuerySuffix(pq[2])
         IN  [Host |-> pq[1].Host, Path |-> pq[1].Path, RawQuery |-> pq[2]]

\* url.ParseQuery, as far as its error goes.
ParseQueryFails(query) == query = "a=%zz"

\* path.Join(elem, "health_check"): joined with one slash and cleaned.
PathJoinHealthCheck(elem) ==
    CASE elem = "" -> "health_check"
      [] elem = "/" -> "/health_check"
      [] elem = "/api" -> "/api/health_check"
      [] elem = "/api/" -> "/api/health_check"

\* url.QueryEscape
QueryEscape(str) == IF str = "a b" THEN "a+b" ELSE str

RECURSIVE EncodeValues(_, _)
\* url.Values{key: vals}.Encode()
EncodeValues(key, vals) ==
    IF vals = <<>> THEN ""
    ELSE LET front == EncodeValues(key, SubSeq(vals, 1, Len(vals) - 1))
         IN  (IF front = "" THEN "" ELSE front \o "&")
             \o QueryEscape(key) \o "=" \o QueryEscape(vals[Len(vals)])

\* (*url.URL).String for a URL with scheme, host, path and query.
URLString(u) ==
    u.Host
    \o (IF u.Path # "" /\ u.Path \notin {"/health_check", "/api/health_check"} /\ u.Host # ""
        THEN "/" ELSE "")
    \o u.Path
    \o QuerySuffix(u.RawQuery)

urlQueryOverwrite(u, paramStr) == [u EXCEPT !.RawQuery = paramStr]
urlQueryAppend(u, paramStr) ==
    IF u.RawQuery = ""
    THEN [u EXCEPT !.RawQuery = paramStr]
    ELSE [u EXCEPT !.RawQuery = @ \o "&" \o paramStr]

URLResult(url, err) == [url |-> url, err |-> err]

gatewayHealthCheckURL(endpoint, svcs) ==
    LET u == [Parse(endpoint) EXCEPT !.Path = PathJoinHealthCheck(@)]
    IN  IF ParseQueryFails(u.RawQuery)
        THEN URLResult("", ErrorsNew("invalid gateway query parameters"))
        ELSE IF Len(svcs) > 0
        THEN URLResult(URLString(urlQueryAppend(u, EncodeValues("service", svcs))), NoError)
        ELSE URLResult(URLString(u), NoError)

\* ---- the answer of the health endpoint ----

ReportFields == <<"timestamp", "status", "service_name", "service_version">>

GoodReport ==
    WObj(<< <<"timestamp", WStr("1234")>>, <<"status", WStr("UP")>>,
            <<"service_name", WStr("example")>>, <<"service_version", WStr("1.2.3")>> >>)

\* GoodReport with one member left out, or sent as something else.
ReportWithout(n) == WObj(SelectSeq(GoodReport.v, LAMBDA pr : pr[1] # ReportFields[n]))
ReportWith(n, w) ==
    WObj([i \in DOMAIN GoodReport.v |->
            IF GoodReport.v[i][1] = ReportFields[n] THEN <<ReportFields[n], w>>
            ELSE GoodReport.v[i]])

BadReports ==
    {ReportWithout(n) : n \in 1..4}
    \cup {ReportWith(n, w) : n \in 1..4, w \in {WNum("1"), WNull}}

ReportsMembers ==
    {<<>>, << <<"reports", WNull>> >>, << <<"reports", WStr("UP")>> >>}
    \cup { << <<"reports", WArr(list)>> >> :
             list \in {<<>>, <<GoodReport>>, <<GoodReport, GoodReport>>, <<WStr("UP")>>}
                      \cup {<<bad>> : bad \in BadReports}
                      \cup {<<GoodReport, bad>> : bad \in BadReports} }

ExceptionMembers ==
    {<<>>, << <<"exception", WNull>> >>,
     << <<"exception", WObj(<< <<"description", WStr("BAD")>> >>)>> >>}

HealthBodies ==
    {WInvalid, WNull, WArr(<<>>), WNum("1")}
    \cup {WObj(r \o e) : r \in ReportsMembers, e \in ExceptionMembers}
    \cup {WObj(e \o r) : r \in ReportsMembers, e \in ExceptionMembers}

NilHealthcheck == [k |-> "nil"]
Healthcheck(reports) == [k |-> "healthcheck", reports |-> reports]
HealthResult(resp, err) == [resp |-> resp, err |-> err]

\* json.Unmarshal(r, &rawResp): the two members the struct has, or the error.
UnmarshalRawResp(w) ==
    IF w.k = "invalid" THEN [err |-> ErrorsNew("unexpected end of JSON input")]
    ELSE IF w.k = "null" THEN [err |-> NoError, Reports |-> <<>>, Exception |-> GNil]
    ELSE IF w.k # "obj"
    THEN [err |-> ErrorsNew("json: cannot unmarshal into Go value of type struct")]
    ELSE LET g == Unmarshal(w)
             reports == MapIndex(g, "reports")
         IN  IF reports.k \notin {"nil", "slice"}
             THEN [err |-> ErrorsNew("json: cannot unmarshal into Go struct field .Reports")]
             ELSE [err |-> NoError,
                   Reports |-> IF reports.k = "slice" THEN reports.v ELSE <<>>,
                   Exception |-> MapIndex(g, "exception")]

\* m[field].(string)
FieldStringOrEmpty(rawReport, field) ==
    LET v == MapIndex(rawReport, field)
    IN  IF v.k = "string" THEN [ok |-> TRUE, str |-> v.v] ELSE [ok |-> TRUE, str |-> ""]
FieldString(rawReport, field) ==
    LET v == MapIndex(rawReport, field)
    IN  IF v.k = "string" THEN [ok |-> TRUE, str |-> v.v] ELSE [ok |-> FALSE, str |-> ""]

convertHealthReport(rawReport) ==
    IF rawReport.k # "map"
    THEN [report |-> GNil, err |-> ErrorsNew("health check report: expected an object")]
    ELSE LET bad == {n \in 1..4 : ~FieldString(rawReport, ReportFields[n]).ok}
         IN  IF bad # {}
             THEN [report |-> GNil,
                   err |-> ErrorsNew("health check report expected string "
                                     \o ReportFields[CHOOSE n \in bad : \A o \in bad : n <= o]
                                     \o " field")]
             ELSE [report |-> [n \in 1..4 |-> FieldString(rawReport, ReportFields[n]).str],
                   err |-> NoError]

unmarshalHealthResponse(r) ==
    LET rawResp == UnmarshalRawResp(r)
    IN  IF rawResp.err # NoError
        THEN HealthResult(NilHealthcheck, Errorf("invalid result format", rawResp.err))
        ELSE IF rawResp.Exception # GNil
        THEN HealthResult(NilHealthcheck, ErrorsNew("remote exception"))
        ELSE LET converted == [i \in DOMAIN rawResp.Reports |->
                                  convertHealthReport(rawResp.Reports[i])]
                 failed == {i \in DOMAIN converted : converted[i].err # NoError}
             IN  IF failed # {}
                 THEN HealthResult(NilHealthcheck,
                                   converted[CHOOSE i \in failed : \A o \in failed : i <= o].err)
                 ELSE HealthResult(Healthcheck([i \in DOMAIN converted |-> converted[i].report]),
                                   NoError)

HealthInit ==
    /\ BlockIdle
    /\ DriverIdle
    /\ AccessIdle
    /\ WrapIdle
    /\ RequestIdle
    /\ FlattenIdle
    /\ MockIdle
    /\ SyncIdle
    /\ CfgIdle
    /\ BatchIdle
    /\ ReqIdle
    /\ RpcIdle
    /\ endpointURL \in HealthEndpoints
    /\ services \in ServiceLists
    /\ healthBody \in HealthBodies
    /\ checkURL = [k |-> "none"]
    /\ healthRet = [k |-> "none"]
    /\ healthPc = "start"

\* HealthCheck up to the request it sends.
HealthCheckRequest ==
    /\ healthPc = "start"
    /\ IF endpointURL = ""
       THEN /\ checkURL' = checkURL
            /\ healthRet' = HealthResult(NilHealthcheck,
                               ErrorsNew("ShiroClient.HealthCheck expected an endpoint to be set"))
            /\ healthPc' = "done"
       ELSE /\ checkURL' = gatewayHealthCheckURL(endpointURL, services)
            /\ IF checkURL'.err # NoError
               THEN /\ healthRet' = HealthResult(NilHealthcheck,
                                       Errorf("healthcheck invalid endpoint", checkURL'.err))
                    /\ healthPc' = "done"
               ELSE /\ healthRet' = healthRet
                    /\ healthPc' = "requested"
    /\ UNCHANGED <<blockVars, driverVars, accessVars, wrapVars, requestVars, flattenVars, mockVars, syncVars, rpcVars, cfgVars, batchVars, reqVars,
                   endpointURL, services, healthBody>>

\* HealthCheck from the body it receives to its return.
HealthCheckResponse ==
    /\ healthPc = "requested"
    /\ LET decoded == unmarshalHealthResponse(healthBody)
       IN  healthRet' = IF decoded.err # NoError
                        THEN HealthResult(NilHealthcheck,
                                          Errorf("healthcheck bad response", decoded.err))
                        ELSE decoded
    /\ healthPc' = "done"
    /\ UNCHANGED <<blockVars, driverVars, accessVars, wrapVars, requestVars, flattenVars, mockVars, syncVars, rpcVars, cfgVars, batchVars, reqVars,
                   endpointURL, services, healthBody, checkURL>>

HealthNext == HealthCheckRequest \/ HealthCheckResponse

SpecHealth == HealthInit /\ [][HealthNext]_vars

RECURSIVE ServiceParameters(_)
\* service=<name> for each service, first to last, joined by &.
ServiceParameters(svcs) ==
    IF svcs = <<>> THEN ""
    ELSE "service=" \o QueryEscape(Head(svcs))
         \o (IF Tail(svcs) = <<>> THEN "" ELSE "&" \o ServiceParameters(Tail(svcs)))

\* A query string followed by more parameters.
QueryThen(q, params) ==
    IF q = "" THEN params ELSE IF params = "" THEN q ELSE q \o "&" \o params

URLBuilt == checkURL # [k |-> "none"] /\ checkURL.err = NoError

\* C23: the health-check URL is the endpoint's address with the segment
\* health_check after its path, then the endpoint's own query string as it
\* was, then one service=<name> per service in the order given; for
\* https://localhost and [fabric_peer, phylum] it is exactly
\* https://localhost/health_check?service=fabric_peer&service=phylum.
C23_HealthCheckURL ==
    URLBuilt =>
        /\ \E pre \in EndpointPrefixes, q \in EndpointQueries :
              /\ endpointURL = pre.text \o QuerySuffix(q)
              /\ checkURL.url = pre.trimmed \o "/health_check"
                                \o QuerySuffix(QueryThen(q, ServiceParameters(services)))
        /\ (endpointURL = "https://localhost" /\ services = <<"fabric_peer", "phylum">>) =>
              checkURL.url = "https://localhost/health_check?service=fabric_peer&service=phylum"

\* The URL was built for an endpoint that has a query string and for two
\* services.
C23_Witness ==
    /\ URLBuilt
    /\ endpointURL = "https://localhost/api/?b=2&a=1"
    /\ services = <<"phylum", "fabric_peer">>
    /\ checkURL.url = "https://localhost/api/health_check?b=2&a=1&service=phylum&service=fabric_peer"

\* ---- C24 ----

Member(w, key) == {i \in DOMAIN w.v : w.v[i][1] = key}

\* The body has a top-level exception object.
HasExceptionObject(w) ==
    w.k = "obj" /\ \E i \in Member(w, "exception") : w.v[i][2].k = "obj"

\* A report of the body lacks one of the four fields or has it as something
\* other than a string.
IllFormedReport(rep) ==
    rep.k = "obj" /\ \E n \in 1..4 :
        \A i \in Member(rep, ReportFields[n]) : rep.v[i][2].k # "str"
HasIllFormedReport(w) ==
    w.k = "obj" /\ \E i \in Member(w, "reports") :
        w.v[i][2].k = "arr" /\ \E j \in DOMAIN w.v[i][2].v : IllFormedReport(w.v[i][2].v[j])

\* C24: a health-check body that is not valid JSON, that has a top-level
\* exception object (with or without reports), or that has a report with a
\* missing or non-string field decodes to an error and a nil result, never
\* to a partial list of reports.
C24_BadHealthBodyIsError ==
    (healthPc = "done" /\ URLBuilt
     /\ (healthBody = WInvalid \/ HasExceptionObject(healthBody)
         \/ HasIllFormedReport(healthBody))) =>
        /\ healthRet.err # NoError
        /\ healthRet.resp = NilHealthcheck
        /\ unmarshalHealthResponse(healthBody).resp = NilHealthcheck

\* A body whose second report lacks a field was decoded to an error.
C24_Witness ==
    /\ healthPc = "done" /\ URLBuilt
    /\ healthBody = WObj(<< <<"reports", WArr(<<GoodReport, ReportWithout(2)>>)>> >>)
    /\ healthRet.err # NoError /\ healthRet.resp = NilHealthcheck

----------------------------------------------------------------------------
(* The JSON-RPC request that Call and Init hand to reqres.                 *)

WithTimestampGenerator(out) == [cfg |-> "WithTimestampGenerator", val |-> out]
WithMSPFilter(mspFilter) == [cfg |-> "WithMSPFilter", val |-> mspFilter]
WithCreator(creator) == [cfg |-> "WithCreator", val |-> creator]
WithCCFetchURLDowngrade(downgrade) == [cfg |-> "WithCCFetchURLDowngrade", val |-> downgrade]
WithCCFetchURLProxy(proxy) == [cfg |-> "WithCCFetchURLProxy", val |-> proxy]
WithDependentBlock(block) == [cfg |-> "WithDependentBlock", val |-> block]
WithPhylumVersion(phylumVersion) == [cfg |-> "WithPhylumVersion", val |-> phylumVersion]

\* A nil func and a nil *url.URL.
NilFunc == "<nil func>"
NilURL == "<nil url>"

\* The options with the fields that only Call reads.  A timestamp generator
\* is modelled by the string it returns for the call.
DefaultCallOptions ==
    DefaultRequestOptions
    @@ [ TimestampGenerator |-> NilFunc, MspFilter |-> <<>>, Creator |-> "",
         CcFetchURLDowngrade |-> FALSE, CcFetchURLProxy |-> NilURL,
         DependentBlock |-> "", PhylumVersion |-> "" ]

CallConfigFn(c, r) ==
    CASE c.cfg = "WithTimestampGenerator" -> [r EXCEPT !.TimestampGenerator = c.val]
      [] c.cfg = "WithMSPFilter" -> [r EXCEPT !.MspFilter = c.val]
      [] c.cfg = "WithCreator" -> [r EXCEPT !.Creator = c.val]
      [] c.cfg = "WithCCFetchURLDowngrade" -> [r EXCEPT !.CcFetchURLDowngrade = c.val]
      [] c.cfg = "WithCCFetchURLProxy" -> [r EXCEPT !.CcFetchURLProxy = c.val]
      [] c.cfg = "WithDependentBlock" -> [r EXCEPT !.DependentBlock = c.val]
      [] c.cfg = "WithPhylumVersion" -> [r EXCEPT !.PhylumVersion = c.val]
      [] OTHER -> ConfigFn(c, r)

RECURSIVE FoldCallConfigs(_, _)
FoldCallConfigs(list, r) ==
    IF list = <<>> THEN r ELSE FoldCallConfigs(Tail(list), CallConfigFn(Head(list), r))

\* hex.EncodeToString on the byte strings of the model.
HexEncodeToString(bytes) ==
    CASE bytes = "" -> ""
      [] bytes = "v1" -> "7631"
      [] bytes = "v2" -> "7632"
      [] bytes = "ts1" -> "747331"
      [] bytes = "ts2" -> "747332"

\* Call: transientJSON
TransientJSONWithoutOverride(opt) ==
    [key \in DOMAIN opt.Transient |-> HexEncodeToString(opt.Transient[key])]
TransientJSON(opt) ==
    LET encoded == [key \in DOMAIN opt.Transient |-> HexEncodeToString(opt.Transient[key])]
    IN  IF opt.TimestampGenerator # NilFunc
        THEN MapSet(encoded, "timestamp_override",
                    HexEncodeToString(opt.TimestampGenerator))
        ELSE encoded

\* m[key] = val when cond holds, else m.
SetIf(cond, m, key, val) == IF cond THEN MapSet(m, key, val) ELSE m

\* Call: the params member of the request.
CallParamsZeroValued(method, opt) ==
    [method |-> method, params |-> opt.Params, transient |-> TransientJSON(opt),
     dependent_txid |-> opt.DependentTxID, dependent_block |-> opt.DependentBlock,
     phylum_version |-> opt.PhylumVersion,
     disable_write_polling |-> opt.DisableWritePolling,
     cc_fetchurl_downgrade |-> opt.CcFetchURLDowngrade,
     cc_fetchurl_proxy |-> IF opt.CcFetchURLProxy # NilURL THEN opt.CcFetchURLProxy ELSE "",
     msp_filter |-> opt.MspFilter, min_endorsers |-> opt.MinEndorsers,
     creator_msp_id |-> opt.Creator]
CallParams(method, opt) ==
    LET p0 == [method |-> method, params |-> opt.Params, transient |-> TransientJSON(opt)]
        p1 == SetIf(opt.DependentTxID # "", p0, "dependent_txid", opt.DependentTxID)
        p2 == SetIf(opt.DependentBlock # "", p1, "dependent_block", opt.DependentBlock)
        p3 == SetIf(opt.PhylumVersion # "", p2, "phylum_version", opt.PhylumVersion)
        p4 == SetIf(opt.DisableWritePolling, p3, "disable_write_polling",
                    opt.DisableWritePolling)
        p5 == MapSet(p4, "cc_fetchurl_downgrade", opt.CcFetchURLDowngrade)
        p6 == MapSet(p5, "cc_fetchurl_proxy",
                     IF opt.CcFetchURLProxy # NilURL THEN opt.CcFetchURLProxy ELSE "")
        p7 == SetIf(Len(opt.MspFilter) > 0, p6, "msp_filter", opt.MspFilter)
        p8 == SetIf(opt.MinEndorsers > 0, p7, "min_endorsers", opt.MinEndorsers)
    IN  SetIf(opt.Creator # "", p8, "creator_msp_id", opt.Creator)

\* Call: req
CallRequest(method, opt) ==
    [jsonrpc |-> "2.0", id |-> opt.ID, method |-> "Call", params |-> CallParams(method, opt)]

\* Init: req
InitRequest(phylum, opt) ==
    [jsonrpc |-> "2.0", id |-> opt.ID, method |-> "Init", params |-> [phylum |-> phylum]]

\* The request of an operation made with the given configs.
RequestOf(op, base, cfgs) ==
    LET opt == FoldCallConfigs(base \o cfgs, DefaultCallOptions)
    IN  IF op = "Call" THEN CallRequest("m", opt) ELSE InitRequest("cGh5bHVt", opt)

RequestConfigValues ==
    { WithTimestampGenerator("ts1"), WithTimestampGenerator("ts2"),
      WithTimestampGenerator(NilFunc),
      WithTransientData("k", "v1"), WithTransientData("k", "v2"),
      WithTransientData("j", ""),
      WithDependentTxID("tx1"), WithDependentTxID(""), WithDependentBlock("7"),
      WithPhylumVersion("v2"), WithDisableWritePolling(TRUE),
      WithDisableWritePolling(FALSE), WithMSPFilter(<<"Org1MSP">>), WithMSPFilter(<<>>),
      WithMinEndorsers(2), WithMinEndorsers(0), WithCreator("Org1MSP"),
      WithCCFetchURLDowngrade(TRUE), WithCCFetchURLProxy("http://proxy"),
      WithCCFetchURLProxy(NilURL) }
RequestConfigLists == SeqsUpTo(RequestConfigValues, MaxConfigs)

RequestInit ==
    /\ BlockIdle
    /\ DriverIdle
    /\ AccessIdle
    /\ WrapIdle
    /\ HealthIdle
    /\ FlattenIdle
    /\ MockIdle
    /\ SyncIdle
    /\ CfgIdle
    /\ BatchIdle
    /\ ReqIdle
    /\ baseConfig \in {<<WithEndpoint(Endpoint)>>,
                       <<WithEndpoint(Endpoint), WithTimestampGenerator("ts1")>>}
    /\ configs \in RequestConfigLists
    /\ operation \in {"Call", "Init"}
    /\ gateway = DoRequestOk(WNull)
    /\ rpcPc = "start"
    /\ ret = NotReturned
    /\ wraps = 0
    /\ request = [k |-> "none"]

\* Call and Init up to the call of reqres.
SendRequest ==
    /\ rpcPc = "start"
    /\ request' = RequestOf(operation, baseConfig, configs)
    /\ rpcPc' = "sent"
    /\ UNCHANGED <<blockVars, driverVars, accessVars, wrapVars, healthVars, flattenVars, mockVars, syncVars, cfgVars, batchVars, reqVars,
                   baseConfig, configs, gateway, operation, ret, wraps>>

\* The configs whose fields reqres and the classification of the answer read.
ReadByReqres(list) ==
    SelectSeq(list, LAMBDA c : c.cfg \in {"WithEndpoint", "WithID", "WithAuthToken",
                                          "WithHeader", "WithParams"})

\* The gateway has answered and the operation has returned.
RequestAnswered ==
    /\ rpcPc = "sent"
    /\ ret' = IF operation = "Call"
              THEN CallReturn(ReadByReqres(baseConfig), ReadByReqres(configs), gateway)
              ELSE OperationReturn("Init", ReadByReqres(baseConfig), ReadByReqres(configs),
                                   gateway)
    /\ rpcPc' = "done"
    /\ UNCHANGED <<blockVars, driverVars, accessVars, wrapVars, healthVars, flattenVars, mockVars, syncVars, cfgVars, batchVars, reqVars,
                   baseConfig, configs, gateway, operation, wraps, request>>

RequestNext == SendRequest \/ RequestAnswered

SpecCallRequest == RequestInit /\ [][RequestNext]_vars

CallSent == rpcPc \in {"sent", "done"} /\ operation = "Call"
AllConfigs == baseConfig \o configs

\* C25: the params of a Call request hold dependent_txid, dependent_block,
\* phylum_version, disable_write_polling, msp_filter, min_endorsers and
\* creator_msp_id only when the option has a non-default value, holding
\* that value, and always hold cc_fetchurl_downgrade and cc_fetchurl_proxy.
C25_OptionalParamsOnlyWhenSet ==
    CallSent =>
        LET p == request.params
            Sent(key, cfgName, default) ==
                key \in DOMAIN p =>
                    /\ LastValue(AllConfigs, cfgName, default) # default
                    /\ p[key] = LastValue(AllConfigs, cfgName, default)
        IN  /\ Sent("dependent_txid", "WithDependentTxID", "")
            /\ Sent("dependent_block", "WithDependentBlock", "")
            /\ Sent("phylum_version", "WithPhylumVersion", "")
            /\ Sent("disable_write_polling", "WithDisableWritePolling", FALSE)
            /\ Sent("msp_filter", "WithMSPFilter", <<>>)
            /\ Sent("min_endorsers", "WithMinEndorsers", 0)
            /\ Sent("creator_msp_id", "WithCreator", "")
            /\ {"cc_fetchurl_downgrade", "cc_fetchurl_proxy"} \subseteq DOMAIN p
            /\ p.cc_fetchurl_downgrade = LastValue(AllConfigs, "WithCCFetchURLDowngrade", FALSE)

\* A Call was sent with min_endorsers set and dependent_txid left out.
C25_Witness ==
    /\ CallSent
    /\ configs = <<WithMinEndorsers(2), WithDependentTxID("")>>
    /\ "min_endorsers" \in DOMAIN request.params
    /\ "dependent_txid" \notin DOMAIN request.params

WithoutTimestampGenerator(list) ==
    SelectSeq(list, LAMBDA c : c.cfg # "WithTimestampGenerator")

\* C27: the request the RPC client sends for a call is the same whether or
\* not a timestamp generator is configured.
C27_GeneratorDoesNotChangeRequest ==
    rpcPc \in {"sent", "done"} =>
        request = RequestOf(operation, WithoutTimestampGenerator(baseConfig),
                            WithoutTimestampGenerator(configs))

\* The same for Init, which never asks the generator.
C27_GeneratorDoesNotChangeInit ==
    (rpcPc \in {"sent", "done"} /\ operation = "Init") =>
        request = RequestOf(operation, WithoutTimestampGenerator(baseConfig),
                            WithoutTimestampGenerator(configs))

----------------------------------------------------------------------------
(* TickAsync and the rounds of the poll goroutine.                         *)

\* The step in which a call of TickAsync returns: its send is received.
TickAsyncReturns == overrideSenders' = overrideSenders - 1

\* A call of TickAsync that has not yet become a round.
AsyncTickPending ==
    overrideSenders > 0 \/ (loop.pc = "decide" /\ loop.origin = "override")

InProgress(r) == rounds[r].pc # "returned"

\* C28: a call of TickAsync returns as soon as the poll goroutine takes its
\* signal, which it can do whenever it is at its select, whether polling is
\* paused, the ticker stopped or earlier rounds still running; the return
\* is no step of a round and comes before the round it triggers is invoked;
\* and every call returns and is followed by its round.
C28_TickAsyncDoesNotWaitForRound ==
    /\ []((overrideSenders > 0 /\ loop.pc = "select") => ENABLED LoopRecvOverride)
    /\ [][TickAsyncReturns => rounds' = rounds]_vars
    /\ AsyncTickPending ~> ~AsyncTickPending

\* The round of a TickAsync is running, started while polling was paused
\* and the ticker stopped and while an earlier round was still in progress.
C28_Witness ==
    /\ ~enable /\ tickerStopped
    /\ \E r \in RoundsOf({"override"}) :
          /\ rounds[r].pc = "get"
          /\ \E e \in DOMAIN rounds : e < r /\ rounds[e].pc = "wait"

\* The rounds the poll goroutine has started.
LoopRounds == RoundsOf({"timer", "override"})

\* C30 as stated: the rounds started by the poll goroutine never overlap:
\* at most one of them is in progress at any time.
C30_LoopRoundsNeverOverlap ==
    \A r1, r2 \in LoopRounds : (InProgress(r1) /\ InProgress(r2)) => r1 = r2

\* The step is the poll goroutine's go ticker.Tick(ctx).
LoopRoundStarts ==
    /\ Len(rounds') > Len(rounds)
    /\ rounds'[Len(rounds')].origin \in {"timer", "override"}

\* C30 amended: the poll goroutine starts its rounds one at a time, one per
\* signal it has taken, and goes back to its select without waiting for the
\* round; the rounds it has started run on their own and may overlap one
\* another as well as the rounds of Tick calls.
C30_LoopStartsRoundsOneAtATime ==
    [][LoopRoundStarts =>
         /\ Len(rounds') = Len(rounds) + 1
         /\ SubSeq(rounds', 1, Len(rounds)) = rounds
         /\ loop.pc = "decide" /\ rounds'[Len(rounds')].origin = loop.origin
         /\ loop' = LoopAtSelect]_vars

\* Two rounds started by the poll goroutine are in progress at once.
C30_Witness ==
    \E r1, r2 \in LoopRounds : r1 < r2 /\ InProgress(r1) /\ InProgress(r2)

----------------------------------------------------------------------------
(* private.WrapCall: encode the message, make the wrapped call, decode the *)
(* response.  clientCalls records every client.Call with its configs.      *)

ShiroEndpointEncode == "private_encode"
ShiroEndpointDecode == "private_decode"
WrappedMethod == "wrapped"

\* The one Config value that WithSkipEncodeTx returns.
skipEncodeConfig == [cfg |-> "WithSingleton", ptr |-> "skipEncodeConfig"]

doSkipEncodeTx(cfgs) == \E i \in DOMAIN cfgs : cfgs[i] = skipEncodeConfig

withParam(arg) == WithParams(<<arg>>)

\* EncodedResponse: an encoded message or a raw one.
EncodedMessage(mxf) == [k |-> "encoded", MXF |-> mxf]
RawMessage(text) == [k |-> "raw", text |-> text]
skipEncodeRequest == EncodedMessage("transient")

\* WithTransientMXF: the seed and the request in transient data.
WithTransientMXF(message) ==
    <<WithTransientData("csprng_seed_private", "seed"), WithTransientData("mxf", message)>>

\* What a client.Call made by the wrapper can answer.
WrapOutcomes ==
    {[k |-> "err"], [k |-> "failure"]}
    \cup {[k |-> "ok", msg |-> msg, txID |-> txID] :
            msg \in {EncodedMessage("v1"), RawMessage("out")}, txID \in {"", "tx1"}}

ClientCall(method, cfgs) == [method |-> method, configs |-> cfgs]

\* The configs a caller passes to the function WrapCall returned.
CallerConfigLists ==
    {<<>>, <<WithID("a")>>, <<WithTransientData("mxf", "caller")>>, <<skipEncodeConfig>>,
     <<WithID("a"), skipEncodeConfig>>}

WrapInputs ==
    {[message |-> message, transforms |-> transforms, configs |-> cfgs] :
        message \in {"nil", "msg"}, transforms \in {0, 1}, cfgs \in CallerConfigLists}

WrapReturned(err) == [k |-> "returned", err |-> err]

\* encodeHelper: the configs of its client.Call.
EncodeCallConfigs(in) == in.configs \o WithTransientMXF(in.message)

\* Decode: the configs of its client.Call.
DecodeCallConfigs(cfgs, encoded) == cfgs \o <<withParam(encoded)>>

WrapInit ==
    /\ BlockIdle
    /\ DriverIdle
    /\ AccessIdle
    /\ RequestIdle
    /\ HealthIdle
    /\ FlattenIdle
    /\ MockIdle
    /\ SyncIdle
    /\ RpcIdle
    /\ CfgIdle
    /\ BatchIdle
    /\ ReqIdle
    /\ wrapIn \in WrapInputs
    /\ clientCalls = <<>>
    /\ wrapNew = <<>>
    /\ wrapResp = [k |-> "none"]
    /\ wrapPc = "encode"
    /\ wrapRet = [k |-> "none"]

WrapUnchanged ==
    UNCHANGED <<blockVars, driverVars, accessVars, requestVars, healthVars, flattenVars, mockVars, syncVars, rpcVars, cfgVars,
                batchVars, reqVars, wrapIn>>

\* encodeHelper without a call on the client: nil message, no transforms,
\* or WithSkipEncodeTx among the configs.
WrapEncodeLocal ==
    /\ wrapPc = "encode"
    /\ \/ /\ wrapIn.message = "nil"
          /\ wrapNew' = <<>>
       \/ /\ wrapIn.message # "nil" /\ wrapIn.transforms = 0
          /\ wrapNew' = <<withParam(RawMessage(wrapIn.message))>>
       \/ /\ wrapIn.message # "nil" /\ wrapIn.transforms > 0
          /\ doSkipEncodeTx(wrapIn.configs)
          /\ wrapNew' = WithTransientMXF(wrapIn.message) \o <<withParam(skipEncodeRequest)>>
    /\ wrapPc' = "call"
    /\ UNCHANGED <<clientCalls, wrapResp, wrapRet>>
    /\ WrapUnchanged

\* encodeHelper with client.Call(ctx, ShiroEndpointEncode, configs...).
WrapEncodeCall(outcome) ==
    /\ wrapPc = "encode"
    /\ wrapIn.message # "nil" /\ wrapIn.transforms > 0
    /\ ~doSkipEncodeTx(wrapIn.configs)
    /\ clientCalls' = Append(clientCalls,
                             ClientCall(ShiroEndpointEncode, EncodeCallConfigs(wrapIn)))
    /\ IF outcome.k = "ok"
       THEN /\ wrapNew' = <<WithDependentTxID(outcome.txID), withParam(outcome.msg)>>
            /\ wrapPc' = "call"
            /\ wrapRet' = wrapRet
       ELSE /\ wrapNew' = wrapNew
            /\ wrapPc' = "done"
            /\ wrapRet' = WrapReturned(ErrorsNew("wrap encode error"))
    /\ UNCHANGED wrapResp
    /\ WrapUnchanged

\* client.Call(ctx, method, callConfigs...)
WrapWrappedCall(outcome) ==
    /\ wrapPc = "call"
    /\ clientCalls' = Append(clientCalls, ClientCall(WrappedMethod, wrapIn.configs \o wrapNew))
    /\ IF outcome.k = "ok"
       THEN /\ wrapResp' = outcome
            /\ wrapPc' = "decode"
            /\ wrapRet' = wrapRet
       ELSE /\ wrapResp' = wrapResp
            /\ wrapPc' = "done"
            /\ wrapRet' = WrapReturned(ErrorsNew("wrap call error"))
    /\ UNCHANGED wrapNew
    /\ WrapUnchanged

\* The configs WrapCall hands to Decode.
DecodeConfigs ==
    IF wrapResp.txID # "" THEN wrapIn.configs \o <<WithDependentTxID(wrapResp.txID)>>
    ELSE wrapIn.configs

\* Decode of a raw message: no call on the client.
WrapDecodeLocal ==
    /\ wrapPc = "decode"
    /\ wrapResp.msg.k = "raw"
    /\ wrapPc' = "done"
    /\ wrapRet' = WrapReturned(NoError)
    /\ UNCHANGED <<clientCalls, wrapNew, wrapResp>>
    /\ WrapUnchanged

\* Decode with client.Call(ctx, ShiroEndpointDecode, configs...).
WrapDecodeCall(outcome) ==
    /\ wrapPc = "decode"
    /\ wrapResp.msg.k = "encoded"
    /\ clientCalls' = Append(clientCalls,
                             ClientCall(ShiroEndpointDecode,
                                        DecodeCallConfigs(DecodeConfigs, wrapResp.msg)))
    /\ wrapPc' = "done"
    /\ wrapRet' = IF outcome.k = "ok" THEN WrapReturned(NoError)
                  ELSE WrapReturned(ErrorsNew("wrap decode error"))
    /\ UNCHANGED <<wrapNew, wrapResp>>
    /\ WrapUnchanged

WrapNext ==
    \/ WrapEncodeLocal
    \/ WrapDecodeLocal
    \/ \E outcome \in WrapOutcomes :
         WrapEncodeCall(outcome) \/ WrapWrappedCall(outcome) \/ WrapDecodeCall(outcome)

SpecWrapCall == WrapInit /\ [][WrapNext]_vars

HoldsCallerConfig(made) ==
    \E i \in DOMAIN wrapIn.configs, j \in DOMAIN made.configs :
        made.configs[j] = wrapIn.configs[i]

\* C29: the configs passed to the function that WrapCall returned reach the
\* wrapped call only: no encode or decode call of the wrapper is made with
\* any of them.
C29_ConfigsOnlyToWrappedCall ==
    \A n \in DOMAIN clientCalls :
        clientCalls[n].method \in {ShiroEndpointEncode, ShiroEndpointDecode} =>
            ~HoldsCallerConfig(clientCalls[n])

\* The part that holds: the wrapped call is made with the caller's configs
\* first and the configs of the encoding after them.
C29_WrappedCallGetsCallersConfigs ==
    \A n \in DOMAIN clientCalls :
        clientCalls[n].method = WrappedMethod =>
            SubSeq(clientCalls[n].configs, 1, Len(wrapIn.configs)) = wrapIn.configs

----------------------------------------------------------------------------
(* The envelopes of one round: callback invocations and reports.            *)

\* The goroutines of round r that were started for its i-th envelope.
TasksOf(r, i) ==
    {t \in DOMAIN rounds[r].tasks : rounds[r].tasks[t].env = rounds[r].envs[i]}

\* The i-th envelope of round r is a blank one or is listed after one.
BlankUpTo(r, i) == \E j \in 1..i : BlankFields(rounds[r].envs[j])

\* C31 as stated: when a round has returned, every well-formed envelope it
\* fetched was consumed by exactly one callback invocation.
C31_EveryWellFormedEnvelopeHasOneCallback ==
    \A r \in DOMAIN rounds :
        rounds[r].pc = "returned" =>
            \A i \in DOMAIN rounds[r].envs :
                ~BlankFields(rounds[r].envs[i]) =>
                    \E t \in DOMAIN rounds[r].tasks :
                        /\ TasksOf(r, i) = {t}
                        /\ rounds[r].tasks[t].state # "callback"

\* C31: within one round, an envelope that no blank envelope precedes has
\* exactly one goroutine and an envelope from the first blank one on has
\* none; the callback of a goroutine runs once and its response is sent by
\* at most one batch_process_response call, which is not repeated when it
\* fails; a failed report changes nothing of the other goroutines of the
\* round, and every goroutine can take its next step whatever has happened
\* to the others.
C31_DispatchedEnvelopeOneCallbackOneReport ==
    /\ [](\A r \in DOMAIN rounds :
            rounds[r].pc \in {"wait", "returned"} =>
                \A i \in DOMAIN rounds[r].envs :
                    Cardinality(TasksOf(r, i)) = IF BlankUpTo(r, i) THEN 0 ELSE 1)
    /\ [](\A r \in DOMAIN rounds : \A t \in DOMAIN rounds[r].tasks :
            /\ rounds[r].tasks[t].state = "callback" => ENABLED TaskCallback(r, t)
            /\ rounds[r].tasks[t].state = "report" => ENABLED TaskReport(r, t))
    /\ [][/\ \A r \in DOMAIN rounds : \A t \in DOMAIN rounds[r].tasks :
               /\ rounds[r].tasks[t].state # "callback" =>
                    /\ rounds'[r].tasks[t].state # "callback"
                    /\ rounds'[r].tasks[t].resp = rounds[r].tasks[t].resp
               /\ rounds[r].tasks[t].state = "done" =>
                    rounds'[r].tasks[t] = rounds[r].tasks[t]
               /\ ReportFailure(r, t) =>
                    /\ recorded' = recorded
                    /\ \A u \in DOMAIN rounds[r].tasks \ {t} :
                         rounds'[r].tasks[u] = rounds[r].tasks[u]
          /\ recorded' # recorded =>
               \E r \in DOMAIN rounds : \E t \in DOMAIN rounds[r].tasks :
                   /\ rounds[r].tasks[t].state = "report"
                   /\ rounds'[r].tasks[t].state = "done"
                   /\ recorded' = Append(recorded, rounds[r].tasks[t].resp)
                   /\ \A u \in DOMAIN rounds[r].tasks \ {t} :
                        rounds'[r].tasks[u] = rounds[r].tasks[u]]_vars

\* A round has returned after dispatching two envelopes: the report of the
\* first failed and was not repeated, the response to the second was
\* recorded by the backend.
C31_Witness ==
    \E r \in DOMAIN rounds :
        /\ rounds[r].pc = "returned"
        /\ Len(rounds[r].tasks) = 2
        /\ rounds[r].tasks[1].state = "done"
        /\ rounds[r].tasks[1].resp \notin Recorded
        /\ rounds[r].tasks[2].resp \in Recorded

----------------------------------------------------------------------------
(* The accessors of Response, Block and Transaction.  A slice is an index   *)
(* into arrays; a caller holds a successResponse, a failureResponse, a     *)
(* block and a transaction, calls their accessors and writes into the      *)
(* slices it gets back.                                                     *)

MaxObtained == 2

ByteSlices == {<<"a">>, <<"a", "b">>}
TransactionLists == {<<>>, <<"tx1">>, <<"tx1", "tx2">>}

\* The field an accessor reads.
FieldOf(accessor) ==
    CASE accessor = "ResultJSON" -> "result"
      [] accessor = "DataJSON" -> "data"
      [] accessor = "Transactions" -> "transactions"
      [] accessor = "Event" -> "event"

Accessors == {"ResultJSON", "DataJSON", "Transactions", "Event"}

\* What a caller can store into an element of a slice it was given.
ElementValues(accessor) ==
    IF accessor = "Transactions" THEN {"tx1", "tx2", "nil"} ELSE {"a", "b", "x"}

AccessInit ==
    /\ BlockIdle
    /\ DriverIdle
    /\ WrapIdle
    /\ RequestIdle
    /\ HealthIdle
    /\ FlattenIdle
    /\ MockIdle
    /\ SyncIdle
    /\ RpcIdle
    /\ CfgIdle
    /\ BatchIdle
    /\ ReqIdle
    /\ \E result \in ByteSlices, data \in ByteSlices, event \in ByteSlices,
          transactions \in TransactionLists :
           arrays = <<result, data, transactions, event>>
    /\ fields = [f \in {"result", "data", "transactions", "event"} |->
                    CASE f = "result" -> 1 [] f = "data" -> 2
                      [] f = "transactions" -> 3 [] f = "event" -> 4]
    /\ obtained = <<>>

AccessUnchanged ==
    UNCHANGED <<blockVars, driverVars, wrapVars, requestVars, healthVars, flattenVars, mockVars, syncVars, rpcVars,
                cfgVars, batchVars, reqVars, fields>>

\* out := make([]T, len(field)); copy(out, field); return out
ReturnCopy(accessor) ==
    /\ Len(obtained) < MaxObtained
    /\ arrays' = Append(arrays, arrays[fields[FieldOf(accessor)]])
    /\ obtained' = Append(obtained, [accessor |-> accessor, array |-> Len(arrays) + 1])
    /\ AccessUnchanged

\* return field
ReturnField(accessor) ==
    /\ Len(obtained) < MaxObtained
    /\ obtained' = Append(obtained, [accessor |-> accessor,
                                     array |-> fields[FieldOf(accessor)]])
    /\ UNCHANGED arrays
    /\ AccessUnchanged

successResponseResultJSON == ReturnCopy("ResultJSON")

failureResponseDataJSON == ReturnCopy("DataJSON")

blockTransactions == ReturnCopy("Transactions")

transactionEvent == ReturnField("Event")

\* The caller stores into an element of a slice an accessor returned.
ModifyElement ==
    \E o \in DOMAIN obtained :
        \E i \in DOMAIN arrays[obtained[o].array] :
            \E v \in ElementValues(obtained[o].accessor) \ {arrays[obtained[o].array][i]} :
                /\ arrays' = [arrays EXCEPT ![obtained[o].array][i] = v]
                /\ UNCHANGED obtained
                /\ AccessUnchanged

AccessNext ==
    \/ successResponseResultJSON
    \/ failureResponseDataJSON
    \/ blockTransactions
    \/ transactionEvent
    \/ ModifyElement

SpecAccessors == AccessInit /\ [][AccessNext]_vars

\* What a call of the accessor returns in the present state.
Returns(accessor) == arrays[fields[FieldOf(accessor)]]

C32_CopyingAccessorsReturnTheSameForever ==
    [][\A a \in Accessors \ {"Event"} : Returns(a)' = Returns(a)]_vars

\* The caller has written into the slice Event() returned, and Event() now
\* returns the byte it wrote.
C32_EventChangedByCaller ==
    /\ \E o \in DOMAIN obtained : obtained[o].accessor = "Event"
    /\ \E i \in DOMAIN Returns("Event") : Returns("Event")[i] = "x"

----------------------------------------------------------------------------
(* A pending request across the rounds of one Ticker.                       *)

\* The goroutines, of any round, that were started for the request id.
DispatchesOf(id) ==
    {<<r, t>> \in (DOMAIN rounds) \X (1..MaxRequests + 1) :
        /\ t \in DOMAIN rounds[r].tasks
        /\ rounds[r].tasks[t].env.RequestID = id}

RequestIDs == {env.RequestID : env \in EnvelopeValues}

\* The requests whose response the backend has processed.
Processed == {recorded[i].RequestID : i \in DOMAIN recorded}

\* C33 as stated: whatever the interleaving of timer firings, TickAsync
\* signals and Tick calls, a pending request gets at most one goroutine, and
\* so at most one callback invocation, over all rounds.
C33_RequestDispatchedAtMostOnce ==
    \A id \in RequestIDs : Cardinality(DispatchesOf(id)) <= 1

\* C33: a round starts at most one goroutine for a request, and the round
\* whose batch_get_requests is answered after the response to a request was
\* processed starts none for it.
C33_ProcessedRequestIsNotDispatchedAgain ==
    /\ [](\A id \in RequestIDs : \A r \in DOMAIN rounds :
            Cardinality({d \in DispatchesOf(id) : d[1] = r}) <= 1)
    /\ [][\A r \in DOMAIN rounds :
            rounds[r].pc = "get" =>
                \A t \in DOMAIN rounds'[r].tasks :
                    rounds'[r].tasks[t].env.RequestID \notin Processed]_vars

\* The response of one round to a request was processed, and a later round
\* was answered with no pending request and has started no goroutine.
C33_Witness ==
    \E r1, r2 \in DOMAIN rounds :
        /\ r1 # r2
        /\ rounds[r1].tasks # <<>>
        /\ rounds[r1].tasks[1].resp \in Recorded
        /\ rounds[r2].pc = "wait"
        /\ rounds[r2].envs = <<>>
        /\ rounds[r2].tasks = <<>>

\* Two rounds have each started a goroutine for the same request.
C33_DispatchedByTwoRounds ==
    \E id \in RequestIDs : \E d1, d2 \in DispatchesOf(id) : d1[1] # d2[1]

----------------------------------------------------------------------------
(* A round whose envelope list holds a malformed envelope.                  *)

\* C34: in a round that fetched a list with a blank envelope, no goroutine
\* is started for the blank envelope or for any envelope listed after it,
\* and when Tick has returned, the goroutines started for the envelopes
\* listed before it have run their callback and finished their report.
C34_BlankEnvelopeEndsDispatchNotTheWait ==
    \A r \in DOMAIN rounds :
        (rounds[r].pc \in {"wait", "returned"} /\ HasBlankEnvelope(rounds[r].envs)) =>
            /\ \A i \in DOMAIN rounds[r].envs :
                 /\ BlankUpTo(r, i) => TasksOf(r, i) = {}
                 /\ ~BlankUpTo(r, i) => TasksOf(r, i) # {}
            /\ rounds[r].pc = "returned" =>
                 \A i \in DOMAIN rounds[r].envs : \A t \in TasksOf(r, i) :
                     /\ rounds[r].tasks[t].state = "done"
                     /\ rounds[r].tasks[t].resp = TaskResponse(rounds[r].envs[i])

\* Tick has returned from a round that fetched a well-formed envelope
\* followed by a blank one: the callback of the first has run and its report
\* was made and failed.
C34_Witness ==
    \E r \in DOMAIN rounds :
        /\ rounds[r].pc = "returned"
        /\ Len(rounds[r].envs) = 2
        /\ ~BlankFields(rounds[r].envs[1]) /\ BlankFields(rounds[r].envs[2])
        /\ Len(rounds[r].tasks) = 1
        /\ rounds[r].tasks[1].state = "done"
        /\ rounds[r].tasks[1].resp \notin Recorded

\* Tick has returned from a round that fetched a blank envelope followed by
\* a well-formed one, and nothing was dispatched.
C34_EnvelopeAfterBlankNotDispatched ==
    \E r \in DOMAIN rounds :
        /\ rounds[r].pc = "returned"
        /\ Len(rounds[r].envs) = 2
        /\ BlankFields(rounds[r].envs[1]) /\ ~BlankFields(rounds[r].envs[2])
        /\ rounds[r].tasks = <<>>

----------------------------------------------------------------------------
(* What Call hands back: a Response or an error.                            *)

\* A non-nil error with no Response, or a nil error with a Response.
ResponseOrError(r) ==
    \/ r.err # NoError /\ r.resp = NilResponse
    \/ r.err = NoError /\ r.resp # NilResponse /\ r.resp.kind \in {"success", "failure"}

\* C35: Call on the RPC client and Call on the mock client return either a
\* non-nil error and no Response or a nil error and a Response, whatever the
\* backend did.
C35_CallReturnsResponseOrError ==
    operation = "Call" =>
        /\ rpcPc = "done" => ResponseOrError(ret)
        /\ mockPc = "done" => ResponseOrError(mockRet)

\* The same for Call on the RPC client over every body a gateway may send.
C35_RpcCallReturnsResponseOrError ==
    rpcPc = "done" => ResponseOrError(ret)

\* Both clients have returned from Call, one pair with a Failure Response
\* and a nil error.
C35_Witness ==
    /\ operation = "Call"
    /\ BothReturned
    /\ ret.err = NoError /\ ret.resp.kind = "failure"
    /\ mockRet.err = NoError /\ mockRet.resp.kind = "failure"

\* Both clients have returned from Call with an error and no Response.
C35_ErrorWithoutResponse ==
    /\ operation = "Call"
    /\ BothReturned
    /\ ret.err # NoError /\ ret.resp = NilResponse
    /\ mockRet.err # NoError /\ mockRet.resp = NilResponse

----------------------------------------------------------------------------
(* The calls of the batch driver on its client: method, params and the      *)
(* client configs given to Register.                                        *)

MaxDriverCalls == 2

BatchName == "batch1"

WithLogrusFields(logFields) == [cfg |-> "WithLogrusFields", val |-> logFields]

\* The client configs a caller may give to Register.
RegisteredValues ==
    { WithParams(<<"other">>), WithHeader("h", "1"), WithID("a"), WithAuthToken("t") }

\* Driver.call: the configs it hands to client.Call.
driverConfigs(params, callFields, clientConfigs) ==
    <<WithParams(params), WithLogrusFields("driver"), WithLogrusFields(callFields),
      WithParams(params)>> \o clientConfigs

\* The options the client resolves for a call of the driver.  WithLogrusFields
\* writes only the log fields, which are no part of the request.
DriverCallOptions(made) ==
    ApplyConfigs(SelectSeq(made.configs, LAMBDA c : c.cfg # "WithLogrusFields"))

DriverInit ==
    /\ BlockIdle
    /\ AccessIdle
    /\ WrapIdle
    /\ RequestIdle
    /\ HealthIdle
    /\ FlattenIdle
    /\ MockIdle
    /\ SyncIdle
    /\ RpcIdle
    /\ CfgIdle
    /\ BatchIdle
    /\ ReqIdle
    /\ registered \in SeqsUpTo(RegisteredValues, MaxConfigs)
    /\ driverCalls = <<>>

DriverUnchanged ==
    UNCHANGED <<blockVars, accessVars, wrapVars, requestVars, healthVars, flattenVars, mockVars, syncVars,
                rpcVars, cfgVars, batchVars, reqVars, registered>>

\* Tick: d.call(ctx, batchGetRequestsMethod, []interface{}{t.batchName}, ...)
DriverGetRequests ==
    /\ Len(driverCalls) < MaxDriverCalls
    /\ driverCalls' = Append(driverCalls,
           [method |-> "batch_get_requests",
            params |-> <<BatchName>>,
            configs |-> driverConfigs(<<BatchName>>, BatchName, registered)])
    /\ DriverUnchanged

\* Tick's goroutine: d.call(ctx, batchProcessResponseMethod,
\* []interface{}{t.batchName, &ResponseEnvelope{...}}, ...)
DriverProcessResponse ==
    /\ Len(driverCalls) < MaxDriverCalls
    /\ \E env \in {e \in EnvelopeValues : ~BlankFields(e)} :
           driverCalls' = Append(driverCalls,
               [method |-> "batch_process_response",
                params |-> <<BatchName, TaskResponse(env)>>,
                configs |-> driverConfigs(<<BatchName, TaskResponse(env)>>,
                                          env.RequestID, registered)])
    /\ DriverUnchanged

DriverNext == DriverGetRequests \/ DriverProcessResponse

SpecDriverCalls == DriverInit /\ [][DriverNext]_vars

\* C36: whatever client configs were given to Register, the call the driver
\* makes carries the protocol params: [batchName] for batch_get_requests and
\* [batchName, ResponseEnvelope] for batch_process_response.
C36_RegisteredConfigsKeepProtocolParams ==
    \A i \in DOMAIN driverCalls :
        DriverCallOptions(driverCalls[i]).Params = driverCalls[i].params

\* What holds instead: the params are the protocol params when no WithParams
\* is among the registered configs.
C36_ParamsKeptWithoutRegisteredParams ==
    \A i \in DOMAIN driverCalls :
        (\A j \in DOMAIN registered : registered[j].cfg # "WithParams") =>
            DriverCallOptions(driverCalls[i]).Params = driverCalls[i].params

\* A batch_process_response call was made with a registered WithParams and
\* carries the registered params instead of the response envelope.
C36_RegisteredParamsSent ==
    \E i \in DOMAIN driverCalls :
        /\ driverCalls[i].method = "batch_process_response"
        /\ DriverCallOptions(driverCalls[i]).Params = <<"other">>

----------------------------------------------------------------------------
(* The goroutine of doRequest after the round trip.                         *)

\* The goroutine is scheduled, and the transport and the reading of the body
\* come to an end.
ReqFairness ==
    /\ WF_vars(NetDo)
    /\ WF_vars(NetRead)
    /\ WF_vars(NetCloseSend)

SpecRequestFair == SpecRequest /\ ReqFairness

\* C37: the goroutine of doRequest comes to its end whatever doRequest itself
\* has done.  Its send on resultCh can always proceed, also when doRequest
\* has returned for the context; it sends once; and when it has ended after
\* httpClient.Do gave a response, the body of the response is closed.
C37_GoroutineEndsAndClosesBody ==
    /\ [](net.pc = "do" => ENABLED NetDo)
    /\ [](net.pc = "close" => ENABLED NetCloseSend)
    /\ [](Len(resultCh) <= 1)
    /\ [](net.pc = "exited" => net.body \in {"none", "closed"})
    /\ [](net.body = "none" => net.pc \in {"do", "exited"})
    /\ [][net.pc = "exited" => net' = net /\ (resultCh' = resultCh \/ resultCh' = <<>>)]_vars
    /\ <>(net.pc = "exited")

\* doRequest has returned the context's error, and afterwards the goroutine
\* has closed the body, put its result into resultCh and ended.
C37_Witness ==
    /\ caller.pc = "returned" /\ caller.woke = "done"
    /\ net.pc = "exited" /\ net.body = "closed"
    /\ Len(resultCh) = 1

----------------------------------------------------------------------------
(* QueryBlock on the mock clients: the Block made from the substrate's      *)
(* block.                                                                   *)

\* plugin.Transaction and plugin.Block as the substrate returns them.
SubstrateTransactions ==
    { [ID |-> "tx1", Reason |-> "VALID", Event |-> "ev1", ChaincodeID |-> "cc1"],
      [ID |-> "tx2", Reason |-> "MVCC_READ_CONFLICT", Event |-> "", ChaincodeID |-> "cc2"],
      [ID |-> "tx3", Reason |-> "VALID", Event |-> "ev2", ChaincodeID |-> "cc1"] }

SubstrateAnswers ==
    {[k |-> "block", Hash |-> h, Transactions |-> txs] :
        h \in {"h1", "h2"}, txs \in SeqsUpTo(SubstrateTransactions, MaxTx)}
    \cup {[k |-> "error", err |-> ErrorsNew("no such block")]}

NilTransaction == [kind |-> "nil"]

\* make([]Transaction, n): n nil entries.
MakeTransactions(n) == [i \in 1..n |-> NilTransaction]

\* internal/mock: transactions[i] = types.NewTransaction(...) for every i,
\* then types.NewBlock(blk.Hash, transactions).
MockBlockOf(blk) ==
    LET transactionsIn == blk.Transactions
        made == MakeTransactions(Len(transactionsIn))
        transactions ==
            [i \in DOMAIN made |->
                NewTransaction(transactionsIn[i].ID, transactionsIn[i].Reason,
                               transactionsIn[i].Event, transactionsIn[i].ChaincodeID)]
    IN NewBlock(blk.Hash, transactions)

\* shiroclient: transactions = append(transactions, &transaction{id, reason,
\* event}) for every entry, then &block{transactions: transactions}.
OldMockBlockOf(blk) ==
    LET transactionsIn == blk.Transactions
        made == MakeTransactions(Len(transactionsIn))
        transactions ==
            made \o [i \in DOMAIN transactionsIn |->
                        NewTransaction(transactionsIn[i].ID, transactionsIn[i].Reason,
                                       transactionsIn[i].Event, "")]
    IN NewBlock("", transactions)

MockVersions == {"internal/mock", "shiroclient"}

MockBlockInit ==
    /\ DriverIdle
    /\ AccessIdle
    /\ WrapIdle
    /\ RequestIdle
    /\ HealthIdle
    /\ FlattenIdle
    /\ MockIdle
    /\ SyncIdle
    /\ RpcIdle
    /\ CfgIdle
    /\ BatchIdle
    /\ ReqIdle
    /\ mockVersion \in MockVersions
    /\ substrateBlock \in SubstrateAnswers
    /\ mockBlock = [k |-> "none"]

MockBlockUnchanged ==
    UNCHANGED <<driverVars, accessVars, wrapVars, requestVars, healthVars, flattenVars, mockVars,
                syncVars, rpcVars, cfgVars, batchVars, reqVars, mockVersion, substrateBlock>>

\* mockShiroClient.QueryBlock of internal/mock
MockClientQueryBlock ==
    /\ mockVersion = "internal/mock"
    /\ mockBlock = [k |-> "none"]
    /\ mockBlock' = IF substrateBlock.k = "error"
                    THEN Returned(NilResponse, substrateBlock.err)
                    ELSE Returned(MockBlockOf(substrateBlock), NoError)
    /\ MockBlockUnchanged

\* mockShiroClient.QueryBlock of shiroclient
OldMockClientQueryBlock ==
    /\ mockVersion = "shiroclient"
    /\ mockBlock = [k |-> "none"]
    /\ mockBlock' = IF substrateBlock.k = "error"
                    THEN Returned(NilResponse, substrateBlock.err)
                    ELSE Returned(OldMockBlockOf(substrateBlock), NoError)
    /\ MockBlockUnchanged

MockBlockNext == MockClientQueryBlock \/ OldMockClientQueryBlock

SpecMockQueryBlock == MockBlockInit /\ [][MockBlockNext]_vars

\* The Block holds one Transaction per transaction of the substrate's block,
\* in its order, none nil, each with the id, reason, event and chaincode id
\* of its transaction, and has the hash of the substrate's block.
MirrorsSubstrateBlock(blk, in) ==
    /\ blk.hash = in.Hash
    /\ Len(blk.transactions) = Len(in.Transactions)
    /\ \A i \in DOMAIN blk.transactions :
         /\ blk.transactions[i] # NilTransaction
         /\ i \in DOMAIN in.Transactions
         /\ blk.transactions[i] =
              NewTransaction(in.Transactions[i].ID, in.Transactions[i].Reason,
                             in.Transactions[i].Event, in.Transactions[i].ChaincodeID)

MockBlockReturned ==
    /\ mockBlock # [k |-> "none"]
    /\ substrateBlock.k = "block"

\* C38: the Block a mock client's QueryBlock returns mirrors the block the
\* substrate reported.
C38_MockBlockMirrorsSubstrateBlock ==
    MockBlockReturned =>
        /\ mockBlock.err = NoError
        /\ MirrorsSubstrateBlock(mockBlock.resp, substrateBlock)

\* What holds instead: the Block of the mock client of internal/mock mirrors
\* the substrate's block.
C38_HoldsOnInternalMock ==
    (MockBlockReturned /\ mockVersion = "internal/mock") =>
        /\ mockBlock.err = NoError
        /\ MirrorsSubstrateBlock(mockBlock.resp, substrateBlock)

\* The mock client of shiroclient has returned a Block for a substrate block
\* of two transactions: four entries, the first two nil, and no hash.
C38_NilEntriesBeforeTransactions ==
    /\ MockBlockReturned /\ mockVersion = "shiroclient"
    /\ Len(substrateBlock.Transactions) = 2
    /\ Len(mockBlock.resp.transactions) = 4
    /\ mockBlock.resp.transactions[1] = NilTransaction
    /\ mockBlock.resp.transactions[2] = NilTransaction
    /\ mockBlock.resp.transactions[3].ID = substrateBlock.Transactions[1].ID
    /\ mockBlock.resp.hash = ""

====
